---- MODULE Spec2Model ----
(***************************************************************************)
(* Absorption bot: the analytics pipeline of svirikk/absorption-bot.       *)
(*                                                                         *)
(* FootprintEngine (volume profile of the open 1m bucket), RollingStats    *)
(* (rolling window of volume / delta samples), SwingDetector (pools of     *)
(* confirmed 15m swing highs and lows), AbsorptionDetector (the pool-based *)
(* candidate -> pending -> confirmed / cancelled detector), the Bot        *)
(* handlers that drive them, AlertService (cooldown and deduplication of   *)
(* the Telegram alerts) and WebSocketManager (reconnects of a stream).     *)
(*                                                                         *)
(* Numbers.  Prices are integers in units of half a price cluster          *)
(* (priceClusterSize = 0.5 is 2 units).  Volumes are integers.  The means  *)
(* of RollingStats are rationals sum / count; every comparison against     *)
(* "mean * multiplier" is made by cross-multiplication, which is exact.    *)
(* A JavaScript null is the empty sequence Null, a non-null value x is the *)
(* one-element sequence Some(x).                                           *)
(***************************************************************************)
EXTENDS Integers, Sequences, FiniteSets, TLC

VARIABLES
    clusters,           \* FootprintEngine.clusters: price level -> cluster
    totalBuyVolume,     \* FootprintEngine.totalBuyVolume
    totalSellVolume,    \* FootprintEngine.totalSellVolume
    tradeCount,         \* FootprintEngine.tradeCount
    volumes,            \* RollingStats.volumes
    absDeltaValues,     \* RollingStats.absDeltaValues
    deltaValues,        \* RollingStats.deltaValues
    swingHighPool,      \* SwingDetector.swingHighPool
    swingLowPool,       \* SwingDetector.swingLowPool
    pending,            \* AbsorptionDetector.pending
    suspended,          \* Bot._on1mClose invocations waiting in `await`
    alertSent,          \* AlertService: some alert was delivered (lastAlertTime # 0)
    coarseClock,        \* number of 15m closes handled so far
    event,              \* history: the last call, its arguments and its result
    pendingAge,         \* history: 1m closes handled since the pending candidate was created
    signalled,          \* history: <<side, time>> of every pivot of a confirmed signal so far
    everPooled,         \* history: <<side, time>> of every pivot that was in a pool so far
    snapshot,           \* the cluster array of the snapshot calculate() returned last
    current1m,          \* CandleBuilder.current1m
    current15m,         \* CandleBuilder.current15m
    closed15m,          \* CandleBuilder.closed15m
    closedLog,          \* history: the closed 1m candles CandleBuilder received, in order
    pushLog,            \* history: the samples pushed to RollingStats since its last reset
    closes,             \* history: the number of 1m closes handled so far, which is the
                        \* openTime of the last closed candle (null where candles
                        \* carry no openTime)
    twin,               \* a second Bot given the same inputs, whose alert deliveries
                        \* return before the next input arrives (null where the
                        \* specification follows one Bot only)
    lastAlertTime,      \* AlertService.lastAlertTime
    recentAlertHashes,  \* AlertService.recentAlertHashes, in insertion order
    sending,            \* _sendAlert calls waiting in `await this.bot.sendMessage`
    clock,              \* Date.now(), in ticks
    sentLog,            \* history: `now` of every alert delivered, in order of delivery
    ws,                 \* WebSocketManager.ws: the index of a socket in `sockets`
    isConnected,        \* WebSocketManager.isConnected
    reconnectAttempts,  \* WebSocketManager.reconnectAttempts
    pingInterval,       \* WebSocketManager.pingInterval
    shouldReconnect,    \* WebSocketManager.shouldReconnect
    sockets,            \* readyState of every WebSocket created so far
    timers,             \* reconnect timers set and not yet fired
    socketHistory       \* history: connect() executions so far, their number when
                        \* 'maxReconnectReached' was first emitted and when disconnect()
                        \* was first called, and the last handler that ran

vars == << clusters, totalBuyVolume, totalSellVolume, tradeCount,
           volumes, absDeltaValues, deltaValues,
           swingHighPool, swingLowPool, pending, suspended, alertSent,
           coarseClock, event, pendingAge, signalled, everPooled, snapshot,
           current1m, current15m, closed15m, closedLog, pushLog, twin, closes,
           lastAlertTime, recentAlertHashes, sending, clock, sentLog,
           ws, isConnected, reconnectAttempts, pingInterval, shouldReconnect,
           sockets, timers, socketHistory >>

----------------------------------------------------------------------------
(* Program constants *)

\* config.alert.rollingWindow (env ROLLING_WINDOW, default 20), scaled down
RollingWindow == 3
\* config.alert.deltaMultiplier = 2.0
deltaMultiplier == 2
\* config.alert.volumeMultiplier = 1.5, as the fraction 3 / 2
volumeMultiplierNum == 3
volumeMultiplierDen == 2
\* config.swing.minLevelsSwept
minLevelsSwept == 2
\* config.swing.lookback
lookback == 2
\* config.swing.maxPoolSize
maxPoolSize == 8
\* config.footprint.priceClusterSize = 0.5; prices are counted in eighths
priceClusterSize == 4
\* AbsorptionDetector.maxConfirmCandles
maxConfirmCandles == 2
\* the 15m window, 15 * 60 * 1000 ms; openTime is counted in minutes
coarseWindowLength == 15

(* Bounds of the model *)
MaxTrades == 1      \* trades ingested between two resets of the profile
MaxCoarse == 2      \* 15m closes handled in a run
MaxSuspended == 1   \* _on1mClose invocations waiting for alert delivery at once
MaxAge == 2         \* closes without trades counted while one candidate is pending
MantissaBits == 3   \* significant bits of a number (53 in a JavaScript double)
max15mHistory == 2  \* CandleBuilder.max15mHistory (60), scaled down
MaxBucketTrades == 2  \* trades per profile where a 1m bucket may hold several
MaxCloses == 6      \* 1m closes handled in a run where candles carry their openTime

Null == << >>
Some(x) == << x >>

----------------------------------------------------------------------------
(* Array helpers *)

RECURSIVE SumSeq(_)
SumSeq(s) == IF s = << >> THEN 0 ELSE Head(s) + SumSeq(Tail(s))

Abs(x) == IF x < 0 THEN -x ELSE x

\* Quantities are JavaScript numbers (parseFloat): a sum or difference is rounded
\* to the nearest number with MantissaBits significant bits, a tie to the one
\* with an even last bit.  Quantities are counted in whole units; a result below
\* 2^MantissaBits is exact.
RECURSIVE SpacingFrom(_, _)
SpacingFrom(a, u) == IF a < (2 ^ MantissaBits) * u THEN u ELSE SpacingFrom(a, 2 * u)

\* the distance between neighbouring numbers around a >= 0
Spacing(a) == SpacingFrom(a, 1)

RoundNumber(x) ==
    LET a  == Abs(x)
        u  == Spacing(a)
        lo == (a \div u) * u
        hi == lo + u
        r  == IF a - lo < hi - a THEN lo
              ELSE IF a - lo > hi - a THEN hi
              ELSE IF (lo \div u) % 2 = 0 THEN lo ELSE hi
    IN  IF x < 0 THEN -r ELSE r

\* a + b and a - b on numbers
Plus(a, b) == RoundNumber(a + b)
Minus(a, b) == RoundNumber(a - b)

RECURSIVE MaxSeq(_)
MaxSeq(s) ==
    IF Len(s) = 1 THEN s[1]
    ELSE LET m == MaxSeq(Tail(s)) IN IF s[1] > m THEN s[1] ELSE m

RECURSIVE MinSeq(_)
MinSeq(s) ==
    IF Len(s) = 1 THEN s[1]
    ELSE LET m == MinSeq(Tail(s)) IN IF s[1] < m THEN s[1] ELSE m

RECURSIVE InsertAsc(_, _)
InsertAsc(x, s) ==
    IF s = << >> THEN << x >>
    ELSE IF x < Head(s) THEN << x >> \o s
    ELSE << Head(s) >> \o InsertAsc(x, Tail(s))

RECURSIVE SortAsc(_)
SortAsc(s) == IF s = << >> THEN << >> ELSE InsertAsc(Head(s), SortAsc(Tail(s)))

Prices(pivots) == [i \in 1..Len(pivots) |-> pivots[i].price]

----------------------------------------------------------------------------
(* RollingStats *)

push(series, x) ==
    LET s == Append(series, x)
    IN  IF Len(s) > RollingWindow THEN Tail(s) ELSE s

\* push shifting only volumes when the window is exceeded
pushSample_shiftsVolumesOnly(vols, absDeltas, deltas, totalVolume, delta) ==
    LET v == Append(vols, totalVolume)
        a == Append(absDeltas, Abs(delta))
        d == Append(deltas, delta)
    IN  [volumes        |-> IF Len(v) > RollingWindow THEN Tail(v) ELSE v,
         absDeltaValues |-> a,
         deltaValues    |-> d]

\* the three series after push(totalVolume, delta): all three are shifted when
\* volumes grew beyond windowSize
pushSample(vols, absDeltas, deltas, totalVolume, delta) ==
    LET v == Append(vols, totalVolume)
        a == Append(absDeltas, Abs(delta))
        d == Append(deltas, delta)
    IN  IF Len(v) > RollingWindow
        THEN [volumes |-> Tail(v), absDeltaValues |-> Tail(a), deltaValues |-> Tail(d)]
        ELSE [volumes |-> v, absDeltaValues |-> a, deltaValues |-> d]

\* isReady with the threshold one sample lower
isReady_oneSampleEarly(vols) == Len(vols) >= (RollingWindow \div 2) - 1

isReady(vols) == Len(vols) >= RollingWindow \div 2

\* x > mean(series) * num / den; the mean of no samples is 0
AboveMean(x, series, num, den) ==
    IF Len(series) = 0 THEN x > 0
    ELSE x * Len(series) * den > SumSeq(series) * num

\* x < -(mean(series) * num / den)
BelowMinusMean(x, series, num, den) ==
    IF Len(series) = 0 THEN x < 0
    ELSE x * Len(series) * den < -(SumSeq(series) * num)

\* the mean taken over windowSize instead of the number of samples
Mean_overWindowSize(series) ==
    IF Len(series) = 0 THEN [num |-> 0, den |-> 1]
    ELSE [num |-> SumSeq(series), den |-> RollingWindow]

\* the mean as the fraction num / den (0 / 1 for no samples)
Mean(series) ==
    IF Len(series) = 0 THEN [num |-> 0, den |-> 1]
    ELSE [num |-> SumSeq(series), den |-> Len(series)]

----------------------------------------------------------------------------
(* FootprintEngine *)

\* _snapToCluster with Math.floor for Math.round
_snapToCluster_floor(price) == (price \div priceClusterSize) * priceClusterSize

\* Math.round(price / size) * size; Math.round rounds a half up
_snapToCluster(price) ==
    ((2 * price + priceClusterSize) \div (2 * priceClusterSize)) * priceClusterSize

NewCluster == [buyVolume |-> 0, sellVolume |-> 0, totalVolume |-> 0, delta |-> 0]

\* the clusters after handleTrade(msg), for an aggTrade message
TradeClusters(cl, msg) ==
    LET level == _snapToCluster(msg.p)
        c0    == IF level \in DOMAIN cl THEN cl[level] ELSE NewCluster
        buy   == IF msg.m THEN c0.buyVolume ELSE Plus(c0.buyVolume, msg.q)
        sell  == IF msg.m THEN Plus(c0.sellVolume, msg.q) ELSE c0.sellVolume
        c1    == [buyVolume |-> buy, sellVolume |-> sell,
                  totalVolume |-> Plus(buy, sell), delta |-> Minus(buy, sell)]
    IN  [l \in (DOMAIN cl) \cup {level} |-> IF l = level THEN c1 ELSE cl[l]]

RECURSIVE SetToAscSeq(_)
SetToAscSeq(S) ==
    IF S = {} THEN << >>
    ELSE LET m == CHOOSE x \in S : \A y \in S : x <= y
         IN  << m >> \o SetToAscSeq(S \ {m})

\* the reduce of calculate() taking a later cluster of equal volume too (>= for >)
RECURSIVE PocOf_lastMax(_, _, _)
PocOf_lastMax(cl, levels, max) ==
    IF levels = << >> THEN max
    ELSE PocOf_lastMax(cl, Tail(levels),
                       IF cl[Head(levels)].totalVolume >= cl[max].totalVolume
                       THEN Head(levels) ELSE max)

\* clusterArray.reduce((max, c) => c.totalVolume > max.totalVolume ? c : max, clusterArray[0])
RECURSIVE PocOf(_, _, _)
PocOf(cl, levels, max) ==
    IF levels = << >> THEN max
    ELSE PocOf(cl, Tail(levels),
               IF cl[Head(levels)].totalVolume > cl[max].totalVolume
               THEN Head(levels) ELSE max)

\* calculate returning a snapshot of zeros for an empty Map
calculate_zeroSnapshot(cl, buyVol, sellVol, count) ==
    LET levels == SetToAscSeq(DOMAIN cl)
        poc    == IF levels = << >> THEN 0 ELSE PocOf(cl, levels, levels[1])
        volAt(level) == IF levels = << >> THEN 0 ELSE cl[level].totalVolume
    IN  Some([poc                 |-> poc,
              pocVolume           |-> volAt(poc),
              totalBuyVolume      |-> buyVol,
              totalSellVolume     |-> sellVol,
              totalVolume         |-> Plus(buyVol, sellVol),
              delta               |-> Minus(buyVol, sellVol),
              topClusterVolume    |-> volAt(IF levels = << >> THEN 0 ELSE levels[Len(levels)]),
              bottomClusterVolume |-> volAt(IF levels = << >> THEN 0 ELSE levels[1]),
              tradeCount          |-> count])

\* calculate(): the snapshot (its scalar fields), or null without trades
calculate(cl, buyVol, sellVol, count) ==
    IF DOMAIN cl = {} THEN Null
    ELSE LET levels == SetToAscSeq(DOMAIN cl)
             poc    == PocOf(cl, levels, levels[1])
         IN  Some([poc                 |-> poc,
                   pocVolume           |-> cl[poc].totalVolume,
                   totalBuyVolume      |-> buyVol,
                   totalSellVolume     |-> sellVol,
                   totalVolume         |-> Plus(buyVol, sellVol),
                   delta               |-> Minus(buyVol, sellVol),
                   topClusterVolume    |-> cl[levels[Len(levels)]].totalVolume,
                   bottomClusterVolume |-> cl[levels[1]].totalVolume,
                   tradeCount          |-> count])

EmptyClusters == [l \in {} |-> NewCluster]

\* the cluster object of a price level: { price, buyVolume, sellVolume, totalVolume, delta }
ClusterObject(cl, level) ==
    [price       |-> level,
     buyVolume   |-> cl[level].buyVolume,
     sellVolume  |-> cl[level].sellVolume,
     totalVolume |-> cl[level].totalVolume,
     delta       |-> cl[level].delta]

\* Array.from(this.clusters.values()).sort((a, b) => a.price - b.price)
clusterArray(cl) ==
    LET levels == SetToAscSeq(DOMAIN cl)
    IN  [i \in 1..Len(levels) |-> ClusterObject(cl, levels[i])]

----------------------------------------------------------------------------
(* CandleBuilder *)

\* the candle handleKlineMessage builds from msg.k
KlineCandle(msg) ==
    [openTime  |-> msg.k.t,
     closeTime |-> msg.k.T,
     open      |-> msg.k.o,
     high      |-> msg.k.h,
     low       |-> msg.k.l,
     close     |-> msg.k.c,
     volume    |-> msg.k.v,
     isClosed  |-> msg.k.x]

\* the window id taken to be the open time itself
windowIdOf_openTime(candle) == candle.openTime

\* Math.floor(candle.openTime / (15 * 60 * 1000))
windowIdOf(candle) == candle.openTime \div coarseWindowLength

_create15mFrom1m(candle1m, windowId) ==
    [windowId |-> windowId,
     openTime |-> candle1m.openTime,
     open     |-> candle1m.open,
     high     |-> candle1m.high,
     low      |-> candle1m.low,
     close    |-> candle1m.close,
     volume   |-> candle1m.volume,
     count    |-> 1]

\* _update15m keeping the close of the first 1m candle
_update15m_firstClose(candle15m, candle1m) ==
    [candle15m EXCEPT
        !.high   = IF candle1m.high > @ THEN candle1m.high ELSE @,
        !.low    = IF candle1m.low < @ THEN candle1m.low ELSE @,
        !.volume = Plus(@, candle1m.volume),
        !.count  = @ + 1]

_update15m(candle15m, candle1m) ==
    [candle15m EXCEPT
        !.high   = IF candle1m.high > @ THEN candle1m.high ELSE @,
        !.low    = IF candle1m.low < @ THEN candle1m.low ELSE @,
        !.close  = candle1m.close,
        !.volume = Plus(@, candle1m.volume),
        !.count  = @ + 1]

\* _close15m dropping the pushed candle instead of the oldest (pop for shift)
_close15m_popNewest(history, candle15m) ==
    LET pushed == Append(history, candle15m)
    IN  IF Len(pushed) > max15mHistory THEN SubSeq(pushed, 1, max15mHistory) ELSE pushed

\* closed15m after _close15m(candle15m): push a copy, shift when over max15mHistory
_close15m(history, candle15m) ==
    LET pushed == Append(history, candle15m)
    IN  IF Len(pushed) > max15mHistory THEN Tail(pushed) ELSE pushed

\* an emitted event
Emit(name, candle) == [name |-> name, candle |-> candle]

----------------------------------------------------------------------------
(* SwingDetector *)

\* pool.sort((a, b) => a.time - b.time), a stable sort
RECURSIVE InsertByTime(_, _)
InsertByTime(x, s) ==
    IF s = << >> THEN << x >>
    ELSE IF x.time < Head(s).time THEN << x >> \o s
    ELSE << Head(s) >> \o InsertByTime(x, Tail(s))

RECURSIVE SortByTime(_)
SortByTime(s) ==
    IF s = << >> THEN << >>
    ELSE InsertByTime(s[Len(s)], SortByTime(SubSeq(s, 1, Len(s) - 1)))

RECURSIVE ShiftTo(_, _)
ShiftTo(pool, n) == IF Len(pool) > n THEN ShiftTo(Tail(pool), n) ELSE pool

\* _addToPool evicting from the end of the sorted pool (pop for shift)
_addToPool_popNewest(pool, entry) ==
    LET sorted == SortByTime(Append(pool, entry))
    IN  IF Len(sorted) > maxPoolSize THEN SubSeq(sorted, 1, maxPoolSize) ELSE sorted

\* _addToPool without the eviction loop
_addToPool_noEviction(pool, entry) == SortByTime(Append(pool, entry))

_addToPool(pool, entry) == ShiftTo(SortByTime(Append(pool, entry)), maxPoolSize)

\* isSwingHigh stopping only at a neighbour strictly above the candidate
isSwingHigh_tieAllowed(candles15m, idx) ==
    \A i \in 1..lookback :
        ~ (candles15m[idx - i].high > candles15m[idx].high
           \/ candles15m[idx + i].high > candles15m[idx].high)

isSwingHigh(candles15m, idx) ==
    \A i \in 1..lookback :
        ~ (candles15m[idx - i].high >= candles15m[idx].high
           \/ candles15m[idx + i].high >= candles15m[idx].high)

isSwingLow(candles15m, idx) ==
    \A i \in 1..lookback :
        ~ (candles15m[idx - i].low <= candles15m[idx].low
           \/ candles15m[idx + i].low <= candles15m[idx].low)

\* update taking lookback as the width of the whole neighbourhood: it asks for
\* lookback + 1 candles and reads lookback \div 2 on each side
update_halfWindow(highPool, lowPool, candles15m) ==
    LET half == lookback \div 2
        len  == Len(candles15m)
        idx  == len - half
    IN  IF len < half * 2 + 1 \/ idx - 1 < half
        THEN [high |-> highPool, low |-> lowPool]
        ELSE LET candidate   == candles15m[idx]
                 alreadyHigh == \E i \in 1..Len(highPool) : highPool[i].time = candidate.openTime
                 alreadyLow  == \E i \in 1..Len(lowPool) : lowPool[i].time = candidate.openTime
                 high == \A i \in 1..half :
                            /\ candles15m[idx - i].high < candidate.high
                            /\ candles15m[idx + i].high < candidate.high
                 low  == \A i \in 1..half :
                            /\ candles15m[idx - i].low > candidate.low
                            /\ candles15m[idx + i].low > candidate.low
             IN  [high |-> IF ~alreadyHigh /\ high
                           THEN _addToPool(highPool, [price |-> candidate.high,
                                                      time  |-> candidate.openTime,
                                                      idx   |-> idx - 1])
                           ELSE highPool,
                  low  |-> IF ~alreadyLow /\ low
                           THEN _addToPool(lowPool, [price |-> candidate.low,
                                                     time  |-> candidate.openTime,
                                                     idx   |-> idx - 1])
                           ELSE lowPool]

\* update(candles15m); idx is the 1-based position of candles15m[len - 1 - lookback]
update(highPool, lowPool, candles15m) ==
    LET len == Len(candles15m)
        idx == len - lookback
    IN  IF len < lookback * 2 + 1 \/ idx - 1 < lookback
        THEN [high |-> highPool, low |-> lowPool]
        ELSE LET candidate   == candles15m[idx]
                 alreadyHigh == \E i \in 1..Len(highPool) : highPool[i].time = candidate.openTime
                 alreadyLow  == \E i \in 1..Len(lowPool) : lowPool[i].time = candidate.openTime
             IN  [high |-> IF ~alreadyHigh /\ isSwingHigh(candles15m, idx)
                           THEN _addToPool(highPool, [price |-> candidate.high,
                                                      time  |-> candidate.openTime,
                                                      idx   |-> idx - 1])
                           ELSE highPool,
                  low  |-> IF ~alreadyLow /\ isSwingLow(candles15m, idx)
                           THEN _addToPool(lowPool, [price |-> candidate.low,
                                                     time  |-> candidate.openTime,
                                                     idx   |-> idx - 1])
                           ELSE lowPool]

\* getSweptLows reporting the lowest swept low as highestSweptLevel
getSweptLows_lowestAsHighest(lowPool, candleLow) ==
    LET swept == SelectSeq(lowPool, LAMBDA s : candleLow < s.price)
    IN  [swept             |-> swept,
         count             |-> Len(swept),
         highestSweptLevel |-> IF Len(swept) > 0 THEN Some(MinSeq(Prices(swept))) ELSE Null,
         deepestLevel      |-> IF Len(swept) > 0 THEN Some(MinSeq(Prices(swept))) ELSE Null]

getSweptLows(lowPool, candleLow) ==
    LET swept == SelectSeq(lowPool, LAMBDA s : candleLow < s.price)
    IN  [swept             |-> swept,
         count             |-> Len(swept),
         highestSweptLevel |-> IF Len(swept) > 0 THEN Some(MaxSeq(Prices(swept))) ELSE Null,
         deepestLevel      |-> IF Len(swept) > 0 THEN Some(MinSeq(Prices(swept))) ELSE Null]

\* getSweptHighs with the comparison turned round
getSweptHighs_above(highPool, candleHigh) ==
    LET swept == SelectSeq(highPool, LAMBDA s : candleHigh < s.price)
    IN  [swept            |-> swept,
         count            |-> Len(swept),
         lowestSweptLevel |-> IF Len(swept) > 0 THEN Some(MinSeq(Prices(swept))) ELSE Null,
         highestLevel     |-> IF Len(swept) > 0 THEN Some(MaxSeq(Prices(swept))) ELSE Null]

\* getSweptHighs counting a high the candle only touched
getSweptHighs_orEqual(highPool, candleHigh) ==
    LET swept == SelectSeq(highPool, LAMBDA s : candleHigh >= s.price)
    IN  [swept            |-> swept,
         count            |-> Len(swept),
         lowestSweptLevel |-> IF Len(swept) > 0 THEN Some(MinSeq(Prices(swept))) ELSE Null,
         highestLevel     |-> IF Len(swept) > 0 THEN Some(MaxSeq(Prices(swept))) ELSE Null]

getSweptHighs(highPool, candleHigh) ==
    LET swept == SelectSeq(highPool, LAMBDA s : candleHigh > s.price)
    IN  [swept            |-> swept,
         count            |-> Len(swept),
         lowestSweptLevel |-> IF Len(swept) > 0 THEN Some(MinSeq(Prices(swept))) ELSE Null,
         highestLevel     |-> IF Len(swept) > 0 THEN Some(MaxSeq(Prices(swept))) ELSE Null]

\* clearSweptLevels matching the pivots by price
clearSweptLevels_byPrice(pool, sweptLevels) ==
    LET sweptPrices == { sweptLevels[i].price : i \in 1..Len(sweptLevels) }
    IN  SelectSeq(pool, LAMBDA s : s.price \notin sweptPrices)

clearSweptLevels(pool, sweptLevels) ==
    LET sweptTimes == { sweptLevels[i].time : i \in 1..Len(sweptLevels) }
    IN  SelectSeq(pool, LAMBDA s : s.time \notin sweptTimes)

----------------------------------------------------------------------------
(* AbsorptionDetector (pool-based) *)

NONE  == "NONE"
SHORT == "SHORT_PENDING"
LONG  == "LONG_PENDING"

_emptyPending ==
    [state        |-> NONE,
     candle       |-> Null,
     footprint    |-> Null,
     sweptLows    |-> Null,
     sweptHighs   |-> Null,
     sweepPrice   |-> Null,
     confirmCount |-> 0]

hasPending(p) == p.state # NONE

\* footprint.delta > avgAbsDelta * config.alert.deltaMultiplier
deltaSpikeUp(fp, absDeltas) == AboveMean(fp.delta, absDeltas, deltaMultiplier, 1)

\* footprint.delta < -(avgAbsDelta * config.alert.deltaMultiplier)
deltaSpikeDown(fp, absDeltas) == BelowMinusMean(fp.delta, absDeltas, deltaMultiplier, 1)

\* footprint.totalVolume > avgVol * config.alert.volumeMultiplier
volSpike(fp, vols) ==
    AboveMean(fp.totalVolume, vols, volumeMultiplierNum, volumeMultiplierDen)

\* closeBelowPOC accepting a close at the POC
closeBelowPOC_orEqual(candle, fp) == candle.close <= fp.poc

closeBelowPOC(candle, fp) == candle.close < fp.poc

\* closeAbovePOC accepting a close at the POC
closeAbovePOC_orEqual(candle, fp) == candle.close >= fp.poc

closeAbovePOC(candle, fp) == candle.close > fp.poc

\* checkCandle: the pending record after the call (the call always returns { type: null })
checkCandle(p, vols, absDeltas, candle, footprint, sweptLows, sweptHighs) ==
    IF footprint = Null \/ ~isReady(vols) THEN p
    ELSE LET fp == footprint[1]
         IN  IF /\ sweptHighs.count >= minLevelsSwept
                /\ deltaSpikeUp(fp, absDeltas)
                /\ volSpike(fp, vols)
                /\ closeBelowPOC(candle, fp)
             THEN [state        |-> SHORT,
                   candle       |-> Some(candle),
                   footprint    |-> footprint,
                   sweptLows    |-> Null,
                   sweptHighs   |-> Some(sweptHighs),
                   sweepPrice   |-> Some(candle.high),
                   confirmCount |-> 0]
             ELSE IF /\ sweptLows.count >= minLevelsSwept
                     /\ deltaSpikeDown(fp, absDeltas)
                     /\ volSpike(fp, vols)
                     /\ closeAbovePOC(candle, fp)
             THEN [state        |-> LONG,
                   candle       |-> Some(candle),
                   footprint    |-> footprint,
                   sweptLows    |-> Some(sweptLows),
                   sweptHighs   |-> Null,
                   sweepPrice   |-> Some(candle.low),
                   confirmCount |-> 0]
             ELSE p

_buildResult(p, vols, absDeltas, type) ==
    LET sweptInfo == IF type = "SHORT" THEN p.sweptHighs[1] ELSE p.sweptLows[1]
    IN  [type |-> type,
         data |-> [sweptLevels    |-> SortAsc(Prices(sweptInfo.swept)),
                   sweptCount     |-> sweptInfo.count,
                   swingLevel     |-> IF type = "SHORT" THEN sweptInfo.highestLevel
                                      ELSE sweptInfo.highestSweptLevel,
                   sweepPrice     |-> p.sweepPrice,
                   delta          |-> p.footprint[1].delta,
                   totalVolume    |-> p.footprint[1].totalVolume,
                   avgVolume      |-> Mean(vols),
                   avgAbsDelta    |-> Mean(absDeltas),
                   poc            |-> p.footprint[1].poc,
                   candleClose    |-> p.candle[1].close,
                   candle         |-> p.candle,
                   footprint      |-> p.footprint,
                   sweptLowsInfo  |-> p.sweptLows,
                   sweptHighsInfo |-> p.sweptHighs]]

\* checkConfirmation cancelling without _clearPending
checkConfirmation_cancelKeepsPending(p, vols, absDeltas, candle, footprint) ==
    IF p.state = NONE THEN [pending |-> p, ret |-> Null]
    ELSE LET q == [p EXCEPT !.confirmCount = @ + 1]
         IN  IF q.state = SHORT
             THEN IF candle.high > q.sweepPrice[1]
                  THEN [pending |-> q, ret |-> Null]
                  ELSE [pending |-> _emptyPending,
                        ret     |-> Some(_buildResult(q, vols, absDeltas, "SHORT"))]
             ELSE IF candle.low < q.sweepPrice[1]
                  THEN [pending |-> q, ret |-> Null]
                  ELSE [pending |-> _emptyPending,
                        ret     |-> Some(_buildResult(q, vols, absDeltas, "LONG"))]

\* checkConfirmation cancelling also when the bucket only touches the sweep price
checkConfirmation_cancelOnTouch(p, vols, absDeltas, candle, footprint) ==
    IF p.state = NONE THEN [pending |-> p, ret |-> Null]
    ELSE LET q == [p EXCEPT !.confirmCount = @ + 1]
         IN  IF q.state = SHORT
             THEN IF candle.high >= q.sweepPrice[1]
                  THEN [pending |-> _emptyPending, ret |-> Null]
                  ELSE [pending |-> _emptyPending,
                        ret     |-> Some(_buildResult(q, vols, absDeltas, "SHORT"))]
             ELSE IF candle.low <= q.sweepPrice[1]
                  THEN [pending |-> _emptyPending, ret |-> Null]
                  ELSE [pending |-> _emptyPending,
                        ret     |-> Some(_buildResult(q, vols, absDeltas, "LONG"))]

\* checkConfirmation: the pending record after the call and the value returned
\* (ret = Null stands for { type: null })
checkConfirmation(p, vols, absDeltas, candle, footprint) ==
    IF p.state = NONE THEN [pending |-> p, ret |-> Null]
    ELSE LET q == [p EXCEPT !.confirmCount = @ + 1]
         IN  IF q.state = SHORT
             THEN IF candle.high > q.sweepPrice[1]
                  THEN [pending |-> _emptyPending, ret |-> Null]
                  ELSE [pending |-> _emptyPending,
                        ret     |-> Some(_buildResult(q, vols, absDeltas, "SHORT"))]
             ELSE IF q.state = LONG
             THEN IF candle.low < q.sweepPrice[1]
                  THEN [pending |-> _emptyPending, ret |-> Null]
                  ELSE [pending |-> _emptyPending,
                        ret     |-> Some(_buildResult(q, vols, absDeltas, "LONG"))]
             ELSE IF q.confirmCount >= maxConfirmCandles
                  THEN [pending |-> _emptyPending, ret |-> Null]
                  ELSE [pending |-> q, ret |-> Null]

----------------------------------------------------------------------------
(* Inputs *)

\* aggTrade messages: p price, q quantity, m buyer-is-maker (a market sell)
TradeMsgs ==
    { [e |-> "aggTrade", p |-> 3, q |-> 1, m |-> TRUE],
      [e |-> "aggTrade", p |-> 3, q |-> 5, m |-> FALSE],
      [e |-> "aggTrade", p |-> 3, q |-> 5, m |-> TRUE] }

\* closed 1m candles
Candles ==
    { [high |-> 8, low |-> 2, close |-> 3],
      [high |-> 7, low |-> 1, close |-> 5],
      [high |-> 9, low |-> 0, close |-> 3] }

\* closed 15m candles, without their open time
CoarseCandles == { [high |-> 5, low |-> 4], [high |-> 6, low |-> 3], [high |-> 7, low |-> 2] }

\* The last 2 * lookback + 1 entries of CandleBuilder.closed15m at the close of
\* 15m window w * (2 * lookback + 1): candle c in the middle, candle n on both
\* sides.  update() reads no other entry.  At the closes in between, the
\* candidate equals a neighbour on both fields and the pools do not change.
CoarseHistory(w, c, n) ==
    [i \in 1..(2 * lookback + 1) |->
        [openTime |-> (w - 1) * (2 * lookback + 1) + i,
         high     |-> IF i = lookback + 1 THEN c.high ELSE n.high,
         low      |-> IF i = lookback + 1 THEN c.low ELSE n.low]]

\* The last call: op, its arguments, the pending record before it, its result.
\* For the Bot handlers op is "1mClose" (_on1mClose ran to its end), "await"
\* (_on1mClose stopped in its await) or "resume" (the rest of a stopped
\* _on1mClose ran), and ret is the confirmed signal of that invocation.
Event(op, candle, footprint, before, ret) ==
    [op |-> op, candle |-> candle, footprint |-> footprint, before |-> before, ret |-> ret]

NoEvent == Event("none", Null, Null, _emptyPending, Null)

\* A Bot as one value: the state of its FootprintEngine, RollingStats,
\* SwingDetector and AbsorptionDetector, and ret, the confirmed signal of the
\* input it handled last.
NewBot ==
    [clusters        |-> EmptyClusters,
     totalBuyVolume  |-> 0,
     totalSellVolume |-> 0,
     tradeCount      |-> 0,
     volumes         |-> << >>,
     absDeltaValues  |-> << >>,
     deltaValues     |-> << >>,
     swingHighPool   |-> << >>,
     swingLowPool    |-> << >>,
     pending         |-> _emptyPending,
     ret             |-> Null]

----------------------------------------------------------------------------
(* AlertService *)

\* config.alert.cooldownMs (300 000 ms), in clock ticks
cooldownMs == 2
\* AlertService.maxRecentHashes (20), scaled down
maxRecentHashes == 1
MaxClock == 5      \* clock ticks in a run, counted from the first alert's earliest time
MaxSending == 2    \* _sendAlert calls waiting for sendMessage at a time

alertVars == << lastAlertTime, recentAlertHashes, sending, clock, sentLog >>

\* the constructor; Date.now() is far more than cooldownMs after the epoch
InitAlertService ==
    /\ lastAlertTime = 0
    /\ recentAlertHashes = << >>
    /\ sending = << >>
    /\ clock = cooldownMs
    /\ sentLog = << >>

\* signal payloads handed to sendShortAlert / sendLongAlert: type and sweptLevels
AlertMenu ==
    { [type |-> "SHORT", sweptLevels |-> << 6, 7 >>],
      [type |-> "LONG", sweptLevels |-> << 2, 3 >>] }

\* `${type}_${data.sweptLevels.join('_')}`: the type and the levels, in order
alertHash(type, data) == << type >> \o data.sweptLevels

InSeq(x, s) == \E i \in 1..Len(s) : s[i] = x

RemoveAt(s, i) == SubSeq(s, 1, i - 1) \o SubSeq(s, i + 1, Len(s))

\* recentAlertHashes after add(alertHash) and the eviction of the first key
addHash(hashes, h) ==
    LET added == IF InSeq(h, hashes) THEN hashes ELSE Append(hashes, h)
    IN  IF Len(added) > maxRecentHashes THEN Tail(added) ELSE added

\* the cooldown test of _sendAlert
coolingDown(now, last) == now - last < cooldownMs

----------------------------------------------------------------------------
(* WebSocketManager *)

\* config.websocket.maxReconnectAttempts (10), scaled down
maxReconnectAttempts == 2
MaxConnects == 5   \* connect() executions in a run

\* _scheduleReconnect with `>` for `>=`
_scheduleReconnect_oneMore(attempts, pendingTimers) ==
    IF attempts > maxReconnectAttempts
    THEN [reconnectAttempts |-> attempts, timers |-> pendingTimers, emitted |-> TRUE]
    ELSE [reconnectAttempts |-> attempts + 1, timers |-> pendingTimers + 1,
          emitted |-> FALSE]

\* _scheduleReconnect(): reconnectAttempts and the pending timers after it, and
\* whether it emitted 'maxReconnectReached'
_scheduleReconnect(attempts, pendingTimers) ==
    IF attempts >= maxReconnectAttempts
    THEN [reconnectAttempts |-> attempts, timers |-> pendingTimers, emitted |-> TRUE]
    ELSE [reconnectAttempts |-> attempts + 1, timers |-> pendingTimers + 1,
          emitted |-> FALSE]

\* ws.terminate(): a socket not yet closed is closing, its 'close' event to come
terminate(readyState) == IF readyState = "CLOSED" THEN "CLOSED" ELSE "CLOSING"

socketVars == << ws, isConnected, reconnectAttempts, pingInterval, shouldReconnect,
                 sockets, timers, socketHistory >>

serviceVars == << alertVars, socketVars >>

\* the constructor
InitWebSocketManager ==
    /\ ws = Null
    /\ isConnected = FALSE
    /\ reconnectAttempts = 0
    /\ pingInterval = Null
    /\ shouldReconnect = TRUE
    /\ sockets = << >>
    /\ timers = 0
    /\ socketHistory = [connects |-> 0, atLimit |-> Null, atDisconnect |-> Null, op |-> "none"]

InitServices == InitAlertService /\ InitWebSocketManager

----------------------------------------------------------------------------

(* The state after construction *)

Init ==
    /\ clusters = EmptyClusters
    /\ totalBuyVolume = 0
    /\ totalSellVolume = 0
    /\ tradeCount = 0
    /\ volumes = << >>
    /\ absDeltaValues = << >>
    /\ deltaValues = << >>
    /\ swingHighPool = << >>
    /\ swingLowPool = << >>
    /\ pending = _emptyPending
    /\ suspended = << >>
    /\ alertSent = FALSE
    /\ coarseClock = 0
    /\ event = NoEvent
    /\ pendingAge = 0
    /\ signalled = {}
    /\ everPooled = {}
    /\ snapshot = Null
    /\ current1m = Null
    /\ current15m = Null
    /\ closed15m = << >>
    /\ closedLog = << >>
    /\ pushLog = << >>
    /\ twin = Null
    /\ closes = Null
    /\ InitServices

engineVars == << clusters, totalBuyVolume, totalSellVolume, tradeCount >>
statsVars == << volumes, absDeltaValues, deltaValues >>
poolVars == << swingHighPool, swingLowPool >>
\* state that only the specifications of single components follow
builderVars == << current1m, current15m, closed15m, closedLog >>
unitVars == << snapshot, builderVars, pushLog >>

----------------------------------------------------------------------------
(* Bot: the pipeline *)

\* The pool queries whose results are handed to checkCandle.  Bot._on1mClose
\* asks the detector for getSwingHigh() / getSwingLow(), which the pool-based
\* SwingDetector does not define; checkCandle documents its last two arguments
\* as the answers of getSweptLows and getSweptHighs, taken here for the closed
\* candle's low and high.
sweptLowsFor(lowPool, candle) == getSweptLows(lowPool, candle.low)
sweptHighsFor(highPool, candle) == getSweptHighs(highPool, candle.high)

\* aggTradeWS 'message' handled by the Bot b
RunTrade(b, msg) ==
    IF msg.e # "aggTrade"
    THEN [b EXCEPT !.ret = Null]
    ELSE [b EXCEPT !.clusters = TradeClusters(b.clusters, msg),
                   !.totalBuyVolume = IF msg.m THEN @ ELSE Plus(@, msg.q),
                   !.totalSellVolume = IF msg.m THEN Plus(@, msg.q) ELSE @,
                   !.tradeCount = @ + 1,
                   !.ret = Null]

\* candleBuilder '15mClose' handled by the Bot b
Run15mClose(b, history) ==
    LET pools == update(b.swingHighPool, b.swingLowPool, history)
    IN  [b EXCEPT !.swingHighPool = pools.high, !.swingLowPool = pools.low, !.ret = Null]

\* Bot._on1mClose run by the Bot b from its first to its last statement, no
\* other handler running during its await
Run1mClose(b, candle) ==
    LET footprint == calculate(b.clusters, b.totalBuyVolume, b.totalSellVolume, b.tradeCount)
        vols      == IF footprint # Null THEN push(b.volumes, footprint[1].totalVolume)
                     ELSE b.volumes
        absDeltas == IF footprint # Null THEN push(b.absDeltaValues, Abs(footprint[1].delta))
                     ELSE b.absDeltaValues
        deltas    == IF footprint # Null THEN push(b.deltaValues, footprint[1].delta)
                     ELSE b.deltaValues
        confirm   == IF hasPending(b.pending) /\ footprint # Null
                     THEN checkConfirmation(b.pending, vols, absDeltas, candle, footprint)
                     ELSE [pending |-> b.pending, ret |-> Null]
    IN  [b EXCEPT !.volumes = vols,
                  !.absDeltaValues = absDeltas,
                  !.deltaValues = deltas,
                  !.pending = IF footprint # Null
                              THEN checkCandle(confirm.pending, vols, absDeltas, candle,
                                               footprint,
                                               sweptLowsFor(b.swingLowPool, candle),
                                               sweptHighsFor(b.swingHighPool, candle))
                              ELSE confirm.pending,
                  !.clusters = EmptyClusters,
                  !.totalBuyVolume = 0,
                  !.totalSellVolume = 0,
                  !.tradeCount = 0,
                  !.ret = confirm.ret]

\* FootprintEngine.handleTrade(msg)
handleTrade(msg) ==
    IF msg.e # "aggTrade"
    THEN UNCHANGED engineVars
    ELSE /\ clusters' = TradeClusters(clusters, msg)
         /\ totalBuyVolume' = IF msg.m THEN totalBuyVolume ELSE Plus(totalBuyVolume, msg.q)
         /\ totalSellVolume' = IF msg.m THEN Plus(totalSellVolume, msg.q) ELSE totalSellVolume
         /\ tradeCount' = tradeCount + 1

\* aggTradeWS 'message' -> FootprintEngine.handleTrade
HandleTrade(msg) ==
    /\ tradeCount < MaxTrades
    /\ handleTrade(msg)
    /\ event' = NoEvent
    /\ twin' = IF twin = Null THEN Null ELSE Some(RunTrade(twin[1], msg))
    /\ UNCHANGED << statsVars, poolVars, pending, suspended, alertSent,
                    coarseClock, pendingAge, signalled, everPooled, unitVars, closes, serviceVars >>

\* reset zeroing the totals and the count but leaving the Map as it is
ResetEngine_keepsClusters ==
    /\ clusters' = clusters
    /\ totalBuyVolume' = 0
    /\ totalSellVolume' = 0
    /\ tradeCount' = 0

\* FootprintEngine.reset
ResetEngine ==
    /\ clusters' = EmptyClusters
    /\ totalBuyVolume' = 0
    /\ totalSellVolume' = 0
    /\ tradeCount' = 0

\* <<side, time>> of the pool entries as a set
PoolKeys(highPool, lowPool) ==
    { << "high", highPool[i].time >> : i \in 1..Len(highPool) }
        \cup { << "low", lowPool[i].time >> : i \in 1..Len(lowPool) }

\* candleBuilder '15mClose' -> SwingDetector.update(candleBuilder.getClosed15m())
On15mClose(c, n) ==
    /\ coarseClock < MaxCoarse
    /\ LET pools == update(swingHighPool, swingLowPool, CoarseHistory(coarseClock + 1, c, n))
       IN  /\ swingHighPool' = pools.high
           /\ swingLowPool' = pools.low
           /\ everPooled' = everPooled \cup PoolKeys(pools.high, pools.low)
    /\ coarseClock' = coarseClock + 1
    /\ event' = NoEvent
    /\ twin' = IF twin = Null THEN Null
               ELSE Some(Run15mClose(twin[1], CoarseHistory(coarseClock + 1, c, n)))
    /\ UNCHANGED << engineVars, statsVars, pending, suspended, alertSent,
                    pendingAge, signalled, unitVars, closes, serviceVars >>

\* The pivots of a confirmed signal, as <<side, time>>
SignalPivots(ret) ==
    IF ret = Null THEN {}
    ELSE LET info == IF ret[1].type = "SHORT" THEN ret[1].data.sweptHighsInfo[1]
                     ELSE ret[1].data.sweptLowsInfo[1]
             side == IF ret[1].type = "SHORT" THEN "high" ELSE "low"
         IN  { << side, info.swept[i].time >> : i \in 1..Len(info.swept) }

\* _on1mClose running checkCandle before checkConfirmation
On1mClose_candidacyFirst(candle, deliver) ==
    \E footprint \in { calculate(clusters, totalBuyVolume, totalSellVolume, tradeCount) } :
    LET vols      == IF footprint # Null THEN push(volumes, footprint[1].totalVolume)
                     ELSE volumes
        absDeltas == IF footprint # Null THEN push(absDeltaValues, Abs(footprint[1].delta))
                     ELSE absDeltaValues
        deltas    == IF footprint # Null THEN push(deltaValues, footprint[1].delta)
                     ELSE deltaValues
        candidate == IF footprint # Null
                     THEN checkCandle(pending, vols, absDeltas, candle, footprint,
                                      sweptLowsFor(swingLowPool, candle),
                                      sweptHighsFor(swingHighPool, candle))
                     ELSE pending
    IN  \E confirm \in { IF hasPending(candidate) /\ footprint # Null
                         THEN checkConfirmation(candidate, vols, absDeltas, candle, footprint)
                         ELSE [pending |-> candidate, ret |-> Null] } :
        /\ volumes' = vols
        /\ absDeltaValues' = absDeltas
        /\ deltaValues' = deltas
        /\ signalled' = signalled \cup SignalPivots(confirm.ret)
        /\ event' = Event("1mClose", Null, Null, candidate, confirm.ret)
        /\ deliver = "skip"
        /\ pending' = confirm.pending
        /\ pendingAge' = 0
        /\ ResetEngine
        /\ twin' = twin
        /\ closes' = IF closes = Null THEN Null ELSE Some(closes[1] + 1)
        /\ UNCHANGED << suspended, poolVars, alertSent, coarseClock, everPooled, unitVars,
                        serviceVars >>

\* Bot._on1mClose up to its first suspension.
\*   steps 1-3: calculate, updateStats, checkConfirmation;
\*   a confirmed signal is handed to _handleAbsorptionConfirmed and awaited:
\*     deliver = "await": AlertService._sendAlert awaits the network; the rest of
\*       the handler runs later (ResumeClose);
\*     deliver = "skip": _sendAlert returns at once (cooldown or duplicate, which
\*       need an earlier delivered alert) and the handler runs on;
\*   steps 4-6: checkCandle, reset.
On1mClose(candle, deliver) ==
    \E footprint \in { calculate(clusters, totalBuyVolume, totalSellVolume, tradeCount) } :
    LET vols      == IF footprint # Null THEN push(volumes, footprint[1].totalVolume)
                     ELSE volumes
        absDeltas == IF footprint # Null THEN push(absDeltaValues, Abs(footprint[1].delta))
                     ELSE absDeltaValues
        deltas    == IF footprint # Null THEN push(deltaValues, footprint[1].delta)
                     ELSE deltaValues
    IN  \E confirm \in { IF hasPending(pending) /\ footprint # Null
                         THEN checkConfirmation(pending, vols, absDeltas, candle, footprint)
                         ELSE [pending |-> pending, ret |-> Null] } :
        /\ volumes' = vols
        /\ absDeltaValues' = absDeltas
        /\ deltaValues' = deltas
        /\ signalled' = signalled \cup SignalPivots(confirm.ret)
        /\ event' = Event(IF confirm.ret # Null /\ deliver = "await" THEN "await" ELSE "1mClose",
                           Null, Null, pending, confirm.ret)
        /\ IF confirm.ret # Null /\ deliver = "await"
           THEN /\ Len(suspended) < MaxSuspended
                /\ suspended' = Append(suspended, [candle       |-> candle,
                                                   footprint    |-> footprint,
                                                   confirmation |-> confirm.ret])
                /\ pending' = confirm.pending
                /\ pendingAge' = 0
                /\ UNCHANGED engineVars
           ELSE /\ confirm.ret # Null => alertSent
                /\ confirm.ret = Null => deliver = "skip"
                /\ footprint = Null /\ hasPending(pending) => pendingAge < MaxAge
                /\ pending' = IF footprint # Null
                              THEN checkCandle(confirm.pending, vols, absDeltas, candle,
                                               footprint,
                                               sweptLowsFor(swingLowPool, candle),
                                               sweptHighsFor(swingHighPool, candle))
                              ELSE confirm.pending
                /\ pendingAge' = IF footprint = Null /\ hasPending(pending)
                                 THEN pendingAge + 1 ELSE 0
                /\ ResetEngine
                /\ UNCHANGED suspended
        /\ twin' = IF twin = Null THEN Null ELSE Some(Run1mClose(twin[1], candle))
        /\ closes' = IF closes = Null THEN Null ELSE Some(closes[1] + 1)
        /\ UNCHANGED << poolVars, alertSent, coarseClock, everPooled, unitVars, serviceVars >>

\* Bot._on1mClose from the return of `await this._handleAbsorptionConfirmed(...)`:
\* the alert was delivered (sent) or sendMessage failed; then steps 4-6.
ResumeClose(i, sent) ==
    /\ i \in 1..Len(suspended)
    /\ LET h == suspended[i]
           p == checkCandle(pending, volumes, absDeltaValues, h.candle, h.footprint,
                            sweptLowsFor(swingLowPool, h.candle),
                            sweptHighsFor(swingHighPool, h.candle))
       IN  /\ pending' = p
           /\ pendingAge' = IF p # pending THEN 0 ELSE pendingAge
           /\ event' = Event("resume", Null, Null, pending, h.confirmation)
    /\ alertSent' = (alertSent \/ sent)
    /\ suspended' = SubSeq(suspended, 1, i - 1) \o SubSeq(suspended, i + 1, Len(suspended))
    /\ ResetEngine
    /\ UNCHANGED << statsVars, poolVars, coarseClock, signalled, everPooled, unitVars, twin, closes, serviceVars >>

Next ==
    \/ \E msg \in TradeMsgs : HandleTrade(msg)
    \/ \E c \in CoarseCandles, n \in CoarseCandles : On15mClose(c, n)
    \/ \E candle \in Candles, deliver \in {"await", "skip"} : On1mClose(candle, deliver)
    \/ \E i \in 1..MaxSuspended, sent \in BOOLEAN : ResumeClose(i, sent)

Spec == Init /\ [][Next]_vars

----------------------------------------------------------------------------
(* Two Bots given the same inputs *)

\* the inputs both Bots are given: two trades, two closed 1m candles, and a
\* closed 15m candle c that is a pivot among its neighbours n
TwinTrades ==
    { [e |-> "aggTrade", p |-> 3, q |-> 1, m |-> TRUE],
      [e |-> "aggTrade", p |-> 3, q |-> 5, m |-> FALSE] }
TwinCandles == { [high |-> 8, low |-> 2, close |-> 3], [high |-> 7, low |-> 1, close |-> 5] }
TwinPivot == [high |-> 7, low |-> 2]
TwinNeighbour == [high |-> 5, low |-> 4]

InitTwin ==
    /\ clusters = EmptyClusters
    /\ totalBuyVolume = 0
    /\ totalSellVolume = 0
    /\ tradeCount = 0
    /\ volumes = << >>
    /\ absDeltaValues = << >>
    /\ deltaValues = << >>
    /\ swingHighPool = << >>
    /\ swingLowPool = << >>
    /\ pending = _emptyPending
    /\ suspended = << >>
    /\ alertSent = FALSE
    /\ coarseClock = 0
    /\ event = NoEvent
    /\ pendingAge = 0
    /\ signalled = {}
    /\ everPooled = {}
    /\ snapshot = Null
    /\ current1m = Null
    /\ current15m = Null
    /\ closed15m = << >>
    /\ closedLog = << >>
    /\ pushLog = << >>
    /\ twin = Some(NewBot)
    /\ closes = Null
    /\ InitServices

NextTwin ==
    \/ \E msg \in TwinTrades : HandleTrade(msg)
    \/ On15mClose(TwinPivot, TwinNeighbour)
    \/ \E candle \in TwinCandles, deliver \in {"await", "skip"} : On1mClose(candle, deliver)
    \/ \E i \in 1..MaxSuspended, sent \in BOOLEAN : ResumeClose(i, sent)

SpecTwin == InitTwin /\ [][NextTwin]_vars

----------------------------------------------------------------------------
(* The pipeline with several trades in a 1m bucket *)

\* trades at one price level: a bucket of a market buy and a market sell of the
\* same quantity has delta 0
BucketTrades ==
    { [e |-> "aggTrade", p |-> 3, q |-> 1, m |-> FALSE],
      [e |-> "aggTrade", p |-> 3, q |-> 1, m |-> TRUE],
      [e |-> "aggTrade", p |-> 3, q |-> 5, m |-> FALSE] }

\* the closed 1m candle: above the pivots' highs, closing below the level of the trades
BucketCandle == [high |-> 8, low |-> 2, close |-> 3]

\* The 1m buckets delivered: a market buy alone, or a market buy followed by a
\* market sell of the same quantity
FitsBucket(msg) ==
    IF tradeCount = 0 THEN ~msg.m
    ELSE msg.m /\ msg.q = totalBuyVolume /\ totalSellVolume = 0

\* aggTradeWS 'message' -> FootprintEngine.handleTrade
HandleBucketTrade(msg) ==
    /\ tradeCount < MaxBucketTrades
    /\ FitsBucket(msg)
    /\ handleTrade(msg)
    /\ event' = NoEvent
    /\ UNCHANGED << statsVars, poolVars, pending, suspended, alertSent,
                    coarseClock, pendingAge, signalled, everPooled, unitVars, twin, closes, serviceVars >>

NextBuckets ==
    \/ \E msg \in BucketTrades : HandleBucketTrade(msg)
    \/ On15mClose(TwinPivot, TwinNeighbour)
    \/ \E deliver \in {"await", "skip"} : On1mClose(BucketCandle, deliver)
    \/ \E i \in 1..MaxSuspended, sent \in BOOLEAN : ResumeClose(i, sent)

SpecBuckets == Init /\ [][NextBuckets]_vars

----------------------------------------------------------------------------
(* The pipeline with candles that carry their openTime *)

\* closed 1m candles without their openTime: the second makes a new high
ClockCandles == { BucketCandle, [high |-> 9, low |-> 2, close |-> 3] }

\* the closed 1m candle of minute t
Stamped(candle, t) ==
    [openTime |-> t, high |-> candle.high, low |-> candle.low, close |-> candle.close]

InitClock ==
    /\ clusters = EmptyClusters
    /\ totalBuyVolume = 0
    /\ totalSellVolume = 0
    /\ tradeCount = 0
    /\ volumes = << >>
    /\ absDeltaValues = << >>
    /\ deltaValues = << >>
    /\ swingHighPool = << >>
    /\ swingLowPool = << >>
    /\ pending = _emptyPending
    /\ suspended = << >>
    /\ alertSent = FALSE
    /\ coarseClock = 0
    /\ event = NoEvent
    /\ pendingAge = 0
    /\ signalled = {}
    /\ everPooled = {}
    /\ snapshot = Null
    /\ current1m = Null
    /\ current15m = Null
    /\ closed15m = << >>
    /\ closedLog = << >>
    /\ pushLog = << >>
    /\ twin = Null
    /\ closes = Some(0)
    /\ InitServices

NextClock ==
    \/ \E msg \in TwinTrades : HandleTrade(msg)
    \/ On15mClose(TwinPivot, TwinNeighbour)
    \/ \E candle \in ClockCandles, deliver \in {"await", "skip"} :
          /\ closes[1] < MaxCloses
          /\ On1mClose(Stamped(candle, closes[1] + 1), deliver)
    \/ \E i \in 1..MaxSuspended, sent \in BOOLEAN : ResumeClose(i, sent)

SpecClock == InitClock /\ [][NextClock]_vars

----------------------------------------------------------------------------
(* AlertService driven call by call *)

pipelineVars == << engineVars, statsVars, poolVars, pending, suspended, alertSent,
                   coarseClock, event, pendingAge, signalled, everPooled, unitVars,
                   twin, closes >>

\* _sendAlert(type, data) up to `await this.bot.sendMessage(...)`: refused by the
\* cooldown or as a duplicate (returns false), or left waiting for the delivery
SendAlert(alert) ==
    /\ Len(sending) < MaxSending
    /\ LET now == clock
           h   == alertHash(alert.type, alert)
       IN  IF coolingDown(now, lastAlertTime) \/ InSeq(h, recentAlertHashes)
           THEN UNCHANGED sending
           ELSE sending' = Append(sending, [now |-> now, alertHash |-> h])
    /\ UNCHANGED << lastAlertTime, recentAlertHashes, clock, sentLog, pipelineVars, socketVars >>

\* sendMessage resolved for the i-th waiting call: the rest of the try block
Delivered(i) ==
    /\ i \in 1..Len(sending)
    /\ lastAlertTime' = sending[i].now
    /\ recentAlertHashes' = addHash(recentAlertHashes, sending[i].alertHash)
    /\ sentLog' = Append(sentLog, sending[i].now)
    /\ sending' = RemoveAt(sending, i)
    /\ UNCHANGED << clock, pipelineVars, socketVars >>

\* sendMessage rejected for the i-th waiting call: the catch block
DeliveryFailed(i) ==
    /\ i \in 1..Len(sending)
    /\ sending' = RemoveAt(sending, i)
    /\ UNCHANGED << lastAlertTime, recentAlertHashes, clock, sentLog, pipelineVars, socketVars >>

\* time passes
Tick ==
    /\ clock < cooldownMs + MaxClock
    /\ clock' = clock + 1
    /\ UNCHANGED << lastAlertTime, recentAlertHashes, sending, sentLog, pipelineVars, socketVars >>

NextAlerts ==
    \/ \E alert \in AlertMenu : SendAlert(alert)
    \/ \E i \in 1..MaxSending : Delivered(i)
    \/ \E i \in 1..MaxSending : DeliveryFailed(i)
    \/ Tick

SpecAlerts == Init /\ [][NextAlerts]_vars

----------------------------------------------------------------------------

(* WebSocketManager driven event by event *)

\* socketHistory after handler op: connected says connect() ran, emitted that
\* 'maxReconnectReached' was emitted, stopping that disconnect() ran
Noted(op, connected, emitted, stopping) ==
    LET n == socketHistory.connects + (IF connected THEN 1 ELSE 0)
    IN  [connects     |-> n,
         atLimit      |-> IF emitted /\ socketHistory.atLimit = Null THEN Some(n)
                          ELSE socketHistory.atLimit,
         atDisconnect |-> IF stopping /\ socketHistory.atDisconnect = Null THEN Some(n)
                          ELSE socketHistory.atDisconnect,
         op           |-> op]

\* connect() called from handler op with pendingTimers timers pending:
\* new WebSocket(url) throws and a reconnect is scheduled, or the new socket is
\* kept in this.ws and the four listeners are bound to it
connect(throws, op, pendingTimers) ==
    /\ socketHistory.connects < MaxConnects
    /\ IF throws
       THEN LET r == _scheduleReconnect(reconnectAttempts, pendingTimers)
            IN  /\ reconnectAttempts' = r.reconnectAttempts
                /\ timers' = r.timers
                /\ socketHistory' = Noted(op, TRUE, r.emitted, FALSE)
                /\ UNCHANGED << ws, sockets >>
       ELSE /\ sockets' = Append(sockets, "CONNECTING")
            /\ ws' = Some(Len(sockets) + 1)
            /\ timers' = pendingTimers
            /\ socketHistory' = Noted(op, TRUE, FALSE, FALSE)
            /\ UNCHANGED reconnectAttempts

\* Bot.start(): connect(), once, before anything else
Connect(throws) ==
    /\ socketHistory.op = "none"
    /\ connect(throws, "connect", timers)
    /\ UNCHANGED << isConnected, pingInterval, shouldReconnect, pipelineVars, alertVars >>

\* socket i emits 'open': _onOpen(), _startPing()
OnOpen(i) ==
    /\ i \in 1..Len(sockets)
    /\ sockets[i] = "CONNECTING"
    /\ sockets' = [sockets EXCEPT ![i] = "OPEN"]
    /\ isConnected' = TRUE
    /\ reconnectAttempts' = 0
    /\ pingInterval' = Some("Timeout")
    /\ socketHistory' = Noted("open", FALSE, FALSE, FALSE)
    /\ UNCHANGED << ws, shouldReconnect, timers, pipelineVars, alertVars >>

\* socket i emits 'close' (after a failed handshake, a lost connection or
\* terminate()): _onClose(code, reason), _clearPing()
OnClose(i) ==
    /\ i \in 1..Len(sockets)
    /\ sockets[i] # "CLOSED"
    /\ sockets' = [sockets EXCEPT ![i] = "CLOSED"]
    /\ isConnected' = FALSE
    /\ pingInterval' = Null
    /\ IF shouldReconnect
       THEN LET r == _scheduleReconnect(reconnectAttempts, timers)
            IN  /\ reconnectAttempts' = r.reconnectAttempts
                /\ timers' = r.timers
                /\ socketHistory' = Noted("close", FALSE, r.emitted, FALSE)
       ELSE /\ socketHistory' = Noted("close", FALSE, FALSE, FALSE)
            /\ UNCHANGED << reconnectAttempts, timers >>
    /\ UNCHANGED << ws, shouldReconnect, pipelineVars, alertVars >>

\* the reconnect timer that never asks shouldReconnect
TimerFires_unguarded ==
    /\ timers > 0
    /\ \E throws \in BOOLEAN : connect(throws, "timer", timers - 1)
    /\ UNCHANGED << isConnected, pingInterval, shouldReconnect, pipelineVars, alertVars >>

\* a reconnect timer fires: if (this.shouldReconnect) this.connect()
TimerFires ==
    /\ timers > 0
    /\ IF shouldReconnect
       THEN \E throws \in BOOLEAN : connect(throws, "timer", timers - 1)
       ELSE /\ timers' = timers - 1
            /\ socketHistory' = Noted("timer", FALSE, FALSE, FALSE)
            /\ UNCHANGED << ws, sockets, reconnectAttempts >>
    /\ UNCHANGED << isConnected, pingInterval, shouldReconnect, pipelineVars, alertVars >>

\* Bot.stop(): disconnect()
Disconnect ==
    /\ socketHistory.op # "none"
    /\ shouldReconnect' = FALSE
    /\ pingInterval' = Null
    /\ IF ws # Null
       THEN sockets' = [sockets EXCEPT ![ws[1]] = terminate(@)]
       ELSE UNCHANGED sockets
    /\ ws' = Null
    /\ isConnected' = FALSE
    /\ socketHistory' = Noted("disconnect", FALSE, FALSE, TRUE)
    /\ UNCHANGED << reconnectAttempts, timers, pipelineVars, alertVars >>

NextSocket ==
    \/ \E throws \in BOOLEAN : Connect(throws)
    \/ \E i \in 1..MaxConnects : OnOpen(i)
    \/ \E i \in 1..MaxConnects : OnClose(i)
    \/ TimerFires
    \/ Disconnect

SpecSocket == Init /\ [][NextSocket]_vars

----------------------------------------------------------------------------

(* AbsorptionDetector driven call by call *)

\* The snapshot of a profile that ingested the trades msgs
RECURSIVE SnapshotOf(_, _, _, _, _)
SnapshotOf(msgs, cl, buyVol, sellVol, count) ==
    IF msgs = << >> THEN calculate(cl, buyVol, sellVol, count)
    ELSE LET msg == Head(msgs)
         IN  SnapshotOf(Tail(msgs), TradeClusters(cl, msg),
                        IF msg.m THEN buyVol ELSE Plus(buyVol, msg.q),
                        IF msg.m THEN Plus(sellVol, msg.q) ELSE sellVol,
                        count + 1)

\* snapshots handed to the detector: no trades (null) or one trade
DetectorSnapshots ==
    { Null } \cup { SnapshotOf(<< msg >>, EmptyClusters, 0, 0, 0) : msg \in TradeMsgs }

\* snapshots handed to checkConfirmation, which reads none of their fields
ConfirmSnapshots ==
    { Null, SnapshotOf(<< [e |-> "aggTrade", p |-> 3, q |-> 1, m |-> TRUE] >>,
                       EmptyClusters, 0, 0, 0) }

DetectorCandles ==
    [high : {7, 8, 9}, low : {2}, close : {3, 4}]
    \cup [high : {7}, low : {0, 1}, close : {4, 5}]
    \cup [high : {8}, low : {1}, close : {3, 5}]

\* pools after two 15m windows: one level a side, or two levels a side
DetectorPools ==
    { LET n  == [high |-> 5, low |-> 4]
          p1 == update(<< >>, << >>, CoarseHistory(1, [high |-> 6, low |-> 3], n))
      IN  update(p1.high, p1.low, CoarseHistory(2, c, n)) :
      c \in { [high |-> 5, low |-> 4], [high |-> 7, low |-> 2] } }

InitDetector ==
    /\ clusters = EmptyClusters
    /\ totalBuyVolume = 0
    /\ totalSellVolume = 0
    /\ tradeCount = 0
    /\ volumes = << >>
    /\ absDeltaValues = << >>
    /\ deltaValues = << >>
    /\ \E pools \in DetectorPools :
          /\ swingHighPool = pools.high
          /\ swingLowPool = pools.low
    /\ pending = _emptyPending
    /\ suspended = << >>
    /\ alertSent = FALSE
    /\ coarseClock = MaxCoarse
    /\ event = NoEvent
    /\ pendingAge = 0
    /\ signalled = {}
    /\ everPooled = PoolKeys(swingHighPool, swingLowPool)
    /\ snapshot = Null
    /\ current1m = Null
    /\ current15m = Null
    /\ closed15m = << >>
    /\ closedLog = << >>
    /\ pushLog = << >>
    /\ twin = Null
    /\ closes = Null
    /\ InitServices

botVars == << engineVars, poolVars, suspended, alertSent, coarseClock, pendingAge, signalled,
             everPooled, unitVars, twin, closes, serviceVars >>

\* updateStats keeping the signed delta in absDeltaValues
UpdateStats_signedDelta(footprint) ==
    /\ footprint # Null
    /\ volumes' = push(volumes, footprint[1].totalVolume)
    /\ absDeltaValues' = push(absDeltaValues, footprint[1].delta)
    /\ deltaValues' = push(deltaValues, footprint[1].delta)
    /\ event' = Event("updateStats", Null, footprint, pending, Null)
    /\ UNCHANGED << pending, botVars >>

\* AbsorptionDetector.updateStats(totalVolume, delta)
UpdateStats(footprint) ==
    /\ footprint # Null
    /\ volumes' = push(volumes, footprint[1].totalVolume)
    /\ absDeltaValues' = push(absDeltaValues, Abs(footprint[1].delta))
    /\ deltaValues' = push(deltaValues, footprint[1].delta)
    /\ event' = Event("updateStats", Null, footprint, pending, Null)
    /\ UNCHANGED << pending, botVars >>

\* AbsorptionDetector.checkCandle(candle, footprint, sweptLows, sweptHighs), the
\* swept sets being SwingDetector's answers for the candle's low and high
CheckCandle(candle, footprint) ==
    /\ pending' = checkCandle(pending, volumes, absDeltaValues, candle, footprint,
                              getSweptLows(swingLowPool, candle.low),
                              getSweptHighs(swingHighPool, candle.high))
    /\ event' = Event("checkCandle", Some(candle), footprint, pending, Null)
    /\ UNCHANGED << statsVars, botVars >>

\* AbsorptionDetector.checkConfirmation(candle, footprint)
CheckConfirmation(candle, footprint) ==
    /\ LET r == checkConfirmation(pending, volumes, absDeltaValues, candle, footprint)
       IN  /\ pending' = r.pending
           /\ event' = Event("checkConfirmation", Some(candle), footprint, pending, r.ret)
    /\ UNCHANGED << statsVars, botVars >>

NextDetector ==
    \/ \E footprint \in DetectorSnapshots : UpdateStats(footprint)
    \/ \E candle \in DetectorCandles, footprint \in DetectorSnapshots :
          CheckCandle(candle, footprint)
    \/ \E candle \in DetectorCandles, footprint \in ConfirmSnapshots :
          CheckConfirmation(candle, footprint)

SpecDetector == InitDetector /\ [][NextDetector]_vars

----------------------------------------------------------------------------
(* SwingDetector driven call by call *)

MaxSwingCalls == 3   \* update and clearSweptLevels calls in a run

\* 15m candles: one that ties its neighbours on both fields, two that dominate them
Flat  == [high |-> 5, low |-> 4]
Peak  == [high |-> 7, low |-> 2]
Knoll == [high |-> 6, low |-> 3]

\* the pools after the 15m windows 2 .. k + 1 each confirmed a pivot on both
\* sides, Knoll and Peak alternating
RECURSIVE PoolsAfter(_)
PoolsAfter(k) ==
    IF k = 0 THEN [high |-> << >>, low |-> << >>]
    ELSE LET p == PoolsAfter(k - 1)
         IN  update(p.high, p.low,
                    CoarseHistory(k + 1, IF k % 2 = 0 THEN Peak ELSE Knoll, Flat))

\* empty pools, two levels a side, full pools
SwingPools == { PoolsAfter(0), PoolsAfter(2), PoolsAfter(maxPoolSize) }

\* windows whose candidate is older than every pooled pivot, the newest entry
\* of a short and of a full pool, and newer than all
UpdateWindows == { 1, 3, maxPoolSize + 1, maxPoolSize + 2 }

\* CoarseHistory(w, c, Flat) with the candle at position j replaced by m
TieHistory(w, c, j, m) ==
    [CoarseHistory(w, c, Flat) EXCEPT ![j].high = m.high, ![j].low = m.low]

\* histories handed to update: a dominating candidate in each window; candidates
\* tying on one or both fields; one outermost neighbour tying or exceeding the
\* candidate on one field; fewer than 2 * lookback + 1 candles; one candle more,
\* an extreme one outside the candidate's neighbourhood
UpdateHistories ==
    { CoarseHistory(w, Peak, Flat) : w \in UpdateWindows }
    \cup { CoarseHistory(maxPoolSize + 2, c, Flat) :
              c \in { Flat, [high |-> 7, low |-> 4], [high |-> 5, low |-> 2] } }
    \cup { TieHistory(maxPoolSize + 2, Peak, j, m) :
              j \in {1, 2 * lookback + 1},
              m \in { [high |-> 7, low |-> 4], [high |-> 5, low |-> 2],
                      [high |-> 8, low |-> 4] } }
    \cup { SubSeq(CoarseHistory(maxPoolSize + 2, Peak, Flat), 1, k) :
              k \in {0, 2 * lookback} }
    \cup { << [openTime |-> (maxPoolSize + 1) * (2 * lookback + 1),
               high |-> 9, low |-> 0] >>
              \o CoarseHistory(maxPoolSize + 2, Peak, Flat) }

\* levels handed to getSweptHighs and getSweptLows: at a pooled price and beyond
HighLevels == {6, 7, 8}
LowLevels == {1, 2, 3}

\* pivot lists handed to clearSweptLevels: what the queries answered on some pools
ClearMenu ==
    { getSweptHighs(p.high, x).swept : p \in SwingPools, x \in {7, 8} }
    \cup { getSweptLows(p.low, 2).swept : p \in SwingPools }

InitSwing ==
    /\ clusters = EmptyClusters
    /\ totalBuyVolume = 0
    /\ totalSellVolume = 0
    /\ tradeCount = 0
    /\ volumes = << >>
    /\ absDeltaValues = << >>
    /\ deltaValues = << >>
    /\ \E pools \in SwingPools :
          /\ swingHighPool = pools.high
          /\ swingLowPool = pools.low
    /\ pending = _emptyPending
    /\ suspended = << >>
    /\ alertSent = FALSE
    /\ coarseClock = 0
    /\ event = NoEvent
    /\ pendingAge = 0
    /\ signalled = {}
    /\ everPooled = PoolKeys(swingHighPool, swingLowPool)
    /\ snapshot = Null
    /\ current1m = Null
    /\ current15m = Null
    /\ closed15m = << >>
    /\ closedLog = << >>
    /\ pushLog = << >>
    /\ twin = Null
    /\ closes = Null
    /\ InitServices

\* the last SwingDetector call: its argument, both pools before it, its result
SwingEvent(op, arg, ret) ==
    [op     |-> op,
     arg    |-> arg,
     before |-> [high |-> swingHighPool, low |-> swingLowPool],
     ret    |-> ret]

detectorVars == << engineVars, statsVars, pending, suspended, alertSent, pendingAge, signalled,
                  unitVars, twin, closes, serviceVars >>

\* SwingDetector.update(candles15m)
Update(candles15m) ==
    /\ coarseClock < MaxSwingCalls
    /\ LET pools == update(swingHighPool, swingLowPool, candles15m)
       IN  /\ swingHighPool' = pools.high
           /\ swingLowPool' = pools.low
           /\ everPooled' = everPooled \cup PoolKeys(pools.high, pools.low)
    /\ coarseClock' = coarseClock + 1
    /\ event' = SwingEvent("update", candles15m, Null)
    /\ UNCHANGED detectorVars

\* SwingDetector.getSweptHighs(candleHigh)
GetSweptHighs(candleHigh) ==
    /\ event' = SwingEvent("getSweptHighs", candleHigh,
                           getSweptHighs(swingHighPool, candleHigh))
    /\ UNCHANGED << poolVars, coarseClock, everPooled, detectorVars >>

\* SwingDetector.getSweptLows(candleLow)
GetSweptLows(candleLow) ==
    /\ event' = SwingEvent("getSweptLows", candleLow,
                           getSweptLows(swingLowPool, candleLow))
    /\ UNCHANGED << poolVars, coarseClock, everPooled, detectorVars >>

\* SwingDetector.clearSweptLevels(type, sweptLevels)
ClearSweptLevels(type, sweptLevels) ==
    /\ IF type = "high"
       THEN /\ swingHighPool' = clearSweptLevels(swingHighPool, sweptLevels)
            /\ UNCHANGED swingLowPool
       ELSE /\ swingLowPool' = clearSweptLevels(swingLowPool, sweptLevels)
            /\ UNCHANGED swingHighPool
    /\ coarseClock < MaxSwingCalls
    /\ coarseClock' = coarseClock + 1
    /\ event' = SwingEvent("clearSweptLevels",
                           [type |-> type, sweptLevels |-> sweptLevels], Null)
    /\ UNCHANGED << everPooled, detectorVars >>

NextSwing ==
    \/ \E candles15m \in UpdateHistories : Update(candles15m)
    \/ \E candleHigh \in HighLevels : GetSweptHighs(candleHigh)
    \/ \E candleLow \in LowLevels : GetSweptLows(candleLow)
    \/ \E type \in {"high", "low"}, sweptLevels \in ClearMenu :
          ClearSweptLevels(type, sweptLevels)

SpecSwing == InitSwing /\ [][NextSwing]_vars

----------------------------------------------------------------------------
(* SwingDetector fed by the stream of closed 15m candles *)

MaxStream == 8   \* closed 15m candles in a run

\* CandleBuilder.max15mHistory (60) scaled down for the stream: one entry more
\* than update reads
StreamHistory == 2 * lookback + 2

InitStream ==
    /\ clusters = EmptyClusters
    /\ totalBuyVolume = 0
    /\ totalSellVolume = 0
    /\ tradeCount = 0
    /\ volumes = << >>
    /\ absDeltaValues = << >>
    /\ deltaValues = << >>
    /\ swingHighPool = << >>
    /\ swingLowPool = << >>
    /\ pending = _emptyPending
    /\ suspended = << >>
    /\ alertSent = FALSE
    /\ coarseClock = 0
    /\ event = NoEvent
    /\ pendingAge = 0
    /\ signalled = {}
    /\ everPooled = {}
    /\ snapshot = Null
    /\ current1m = Null
    /\ current15m = Null
    /\ closed15m = << >>
    /\ closedLog = << >>
    /\ pushLog = << >>
    /\ twin = Null
    /\ closes = Null
    /\ InitServices

\* CandleBuilder._close15m(candle15m) and the '15mClose' handler it emits to:
\* the candle joins closed15m, the oldest entry leaves when the history is
\* full, and SwingDetector.update reads the history.  openTime is the candle's
\* position in the stream.
Close15m(c) ==
    /\ coarseClock < MaxStream
    /\ coarseClock' = coarseClock + 1
    /\ \E history \in { ShiftTo(Append(closed15m, [openTime |-> coarseClock + 1,
                                                   high     |-> c.high,
                                                   low      |-> c.low]),
                                StreamHistory) } :
          /\ closed15m' = history
          /\ LET pools == update(swingHighPool, swingLowPool, history)
             IN  /\ swingHighPool' = pools.high
                 /\ swingLowPool' = pools.low
                 /\ everPooled' = everPooled \cup PoolKeys(pools.high, pools.low)
          /\ event' = SwingEvent("update", history, Null)
    /\ UNCHANGED << engineVars, statsVars, pending, suspended, alertSent, pendingAge,
                    signalled, snapshot, current1m, current15m, closedLog, pushLog,
                    twin, closes, serviceVars >>

NextStream == \E c \in { Flat, Knoll, Peak } : Close15m(c)

SpecStream == InitStream /\ [][NextStream]_vars

----------------------------------------------------------------------------

(* FootprintEngine driven call by call *)

MaxEngineTrades == 3   \* trades ingested between two resets

\* messages of the aggTrade stream: trades whose price / priceClusterSize rounds
\* down (1, 5), lies at a half (2, 6) or rounds up (3), and a message of another
\* event type
EngineMsgs ==
    [e : {"aggTrade"}, p : {1, 2, 3, 5, 6}, q : {1, 2 ^ MantissaBits}, m : BOOLEAN]
    \cup { [e |-> "kline", p |-> 3, q |-> 1, m |-> FALSE] }

\* the last FootprintEngine call: its argument, the engine's fields before it,
\* its result
EngineEvent(op, arg, ret) ==
    [op     |-> op,
     arg    |-> arg,
     before |-> [clusters        |-> clusters,
                 totalBuyVolume  |-> totalBuyVolume,
                 totalSellVolume |-> totalSellVolume,
                 tradeCount      |-> tradeCount],
     ret    |-> ret]

restVars == << statsVars, poolVars, pending, suspended, alertSent, coarseClock,
               pendingAge, signalled, everPooled, builderVars, pushLog, twin, closes, serviceVars >>

\* The `clusters` field of a returned snapshot.  calculate() builds a new array
\* but fills it with the cluster objects the Map holds, so until reset() clears
\* the Map (shared) each element is the object handleTrade updates in place.
\*   returned: the elements' fields when calculate() returned
\*   clusters: the elements' fields now
\* Once the Map was cleared no call reaches the elements any more; the snapshot
\* is followed through that reset() and dropped at the next handleTrade.
Snapshot(cl) ==
    Some([returned |-> clusterArray(cl), clusters |-> clusterArray(cl), shared |-> TRUE])

\* FootprintEngine.handleTrade(msg)
Trade(msg) ==
    /\ tradeCount < MaxEngineTrades
    /\ handleTrade(msg)
    /\ snapshot' = IF snapshot # Null /\ snapshot[1].shared
                   THEN Some([snapshot[1] EXCEPT
                                 !.clusters = [i \in 1..Len(@) |->
                                                  ClusterObject(clusters', @[i].price)]])
                   ELSE Null
    /\ event' = EngineEvent("handleTrade", msg, Null)
    /\ UNCHANGED restVars

\* FootprintEngine.calculate()
Calculate ==
    /\ event' = EngineEvent("calculate", Null,
                            calculate(clusters, totalBuyVolume, totalSellVolume, tradeCount))
    /\ snapshot' = IF DOMAIN clusters = {} THEN snapshot ELSE Snapshot(clusters)
    /\ UNCHANGED << engineVars, restVars >>

\* FootprintEngine.reset()
Reset ==
    /\ ResetEngine
    /\ snapshot' = IF snapshot # Null THEN Some([snapshot[1] EXCEPT !.shared = FALSE])
                   ELSE snapshot
    /\ event' = EngineEvent("reset", Null, Null)
    /\ UNCHANGED restVars

NextEngine ==
    \/ \E msg \in EngineMsgs : Trade(msg)
    \/ Calculate
    \/ Reset

SpecEngine == Init /\ [][NextEngine]_vars

----------------------------------------------------------------------------
(* CandleBuilder driven message by message *)

MaxKlines == 4   \* closed 1m candles received in a run

\* kline payloads: open times in the 15m windows 0, 0, 1 and 2 (a gap), two
\* shapes of candle
KlineShapeA == [o |-> 3, h |-> 5, l |-> 2, c |-> 4, v |-> 1]
KlineShapeB == [o |-> 4, h |-> 7, l |-> 1, c |-> 6, v |-> 2 ^ MantissaBits]

Kline(t, shape, x) ==
    [t |-> t, T |-> t + 1, o |-> shape.o, h |-> shape.h, l |-> shape.l,
     c |-> shape.c, v |-> shape.v, x |-> x]

\* messages of the kline stream: closed candles, updates of an open candle, and a
\* message of another event type
KlineMsgs ==
    { [e |-> "kline", k |-> Kline(t, KlineShapeA, TRUE)] : t \in {0, 14, 15, 31} }
    \cup { [e |-> "kline", k |-> Kline(t, KlineShapeB, TRUE)] : t \in {14, 15} }
    \cup { [e |-> "kline", k |-> Kline(15, KlineShapeB, FALSE)],
           [e |-> "aggTrade", k |-> Kline(15, KlineShapeB, TRUE)] }

\* the last handleKlineMessage call: its message, the builder's fields before
\* it, and the events it emitted, in order
KlineEvent(msg, emitted) ==
    [op      |-> "handleKlineMessage",
     arg     |-> msg,
     before  |-> [current15m |-> current15m, closed15m |-> closed15m],
     emitted |-> emitted]

\* CandleBuilder.handleKlineMessage(msg), with _on1mClose for a closed candle
HandleKlineMessage(msg) ==
    LET candle   == KlineCandle(msg)
        windowId == windowIdOf(candle)
    IN  /\ IF msg.e # "kline"
           THEN /\ event' = KlineEvent(msg, << >>)
                /\ UNCHANGED builderVars
           ELSE /\ current1m' = Some(candle)
                /\ IF ~candle.isClosed
                   THEN /\ event' = KlineEvent(msg, << >>)
                        /\ UNCHANGED << current15m, closed15m, closedLog >>
                   ELSE /\ Len(closedLog) < MaxKlines
                        /\ closedLog' = Append(closedLog, candle)
                        /\ IF current15m = Null
                           THEN /\ current15m' = Some(_create15mFrom1m(candle, windowId))
                                /\ event' = KlineEvent(msg, << Emit("1mClose", candle) >>)
                                /\ UNCHANGED closed15m
                           ELSE IF windowId = current15m[1].windowId
                           THEN /\ current15m' = Some(_update15m(current15m[1], candle))
                                /\ event' = KlineEvent(msg, << Emit("1mClose", candle) >>)
                                /\ UNCHANGED closed15m
                           ELSE /\ closed15m' = _close15m(closed15m, current15m[1])
                                /\ current15m' = Some(_create15mFrom1m(candle, windowId))
                                /\ event' = KlineEvent(msg, << Emit("1mClose", candle),
                                                               Emit("15mClose", current15m[1]) >>)
        /\ UNCHANGED << engineVars, statsVars, poolVars, pending, suspended, alertSent,
                        coarseClock, pendingAge, signalled, everPooled, snapshot, pushLog, twin, closes, serviceVars >>

NextCandles == \E msg \in KlineMsgs : HandleKlineMessage(msg)

SpecCandles == Init /\ [][NextCandles]_vars

----------------------------------------------------------------------------
(* RollingStats driven call by call *)

MaxPushes == 4   \* samples pushed between two resets

\* samples: totalVolume and delta of a closed candle
StatSamples ==
    { [totalVolume |-> 1, delta |-> 1], [totalVolume |-> 1, delta |-> -1],
      [totalVolume |-> 5, delta |-> 5], [totalVolume |-> 5, delta |-> -5],
      [totalVolume |-> 5, delta |-> 1] }

\* the last RollingStats call: its argument, the series before it, its result
StatsEvent(op, arg, ret) ==
    [op     |-> op,
     arg    |-> arg,
     before |-> [volumes |-> volumes, absDeltaValues |-> absDeltaValues,
                 deltaValues |-> deltaValues],
     ret    |-> ret]

nonStatsVars == << engineVars, poolVars, pending, suspended, alertSent, coarseClock,
                   pendingAge, signalled, everPooled, snapshot, builderVars, twin, closes, serviceVars >>

\* RollingStats.push(totalVolume, delta)
Push(sample) ==
    /\ Len(pushLog) < MaxPushes
    /\ LET s == pushSample(volumes, absDeltaValues, deltaValues,
                           sample.totalVolume, sample.delta)
       IN  /\ volumes' = s.volumes
           /\ absDeltaValues' = s.absDeltaValues
           /\ deltaValues' = s.deltaValues
    /\ pushLog' = Append(pushLog, sample)
    /\ event' = StatsEvent("push", sample, Null)
    /\ UNCHANGED nonStatsVars

\* RollingStats.reset()
ResetStats ==
    /\ volumes' = << >>
    /\ absDeltaValues' = << >>
    /\ deltaValues' = << >>
    /\ pushLog' = << >>
    /\ event' = StatsEvent("reset", Null, Null)
    /\ UNCHANGED nonStatsVars

\* the getters avgVolume and avgAbsDelta
ReadMeans ==
    /\ event' = StatsEvent("means", Null, [avgVolume   |-> Mean(volumes),
                                           avgAbsDelta |-> Mean(absDeltaValues)])
    /\ UNCHANGED << statsVars, pushLog, nonStatsVars >>

NextStats ==
    \/ \E sample \in StatSamples : Push(sample)
    \/ ResetStats
    \/ ReadMeans

SpecStats == Init /\ [][NextStats]_vars

----------------------------------------------------------------------------
(* Properties.  Those over event.op = "checkCandle" / "checkConfirmation" are
   stated for SpecDetector, where the statistics and the pools after a call
   are the ones the call read. *)

\* pool entries a bucket's high went above / a bucket's low went below
HighsBelow(level) == { i \in 1..Len(swingHighPool) : swingHighPool[i].price < level }
LowsAbove(level) == { i \in 1..Len(swingLowPool) : swingLowPool[i].price > level }

\* the largest price among pivots
MaxPriceOf(pivots) ==
    CHOOSE m \in { pivots[i].price : i \in 1..Len(pivots) } :
        \A i \in 1..Len(pivots) : pivots[i].price <= m

\* the four conditions of the upper (SHORT) branch, on the current window and pools
UpperConditions(candle, fp) ==
    /\ Cardinality(HighsBelow(candle.high)) >= minLevelsSwept
    /\ fp.delta * Len(absDeltaValues) > deltaMultiplier * SumSeq(absDeltaValues)
    /\ fp.totalVolume * Len(volumes) * volumeMultiplierDen
          > volumeMultiplierNum * SumSeq(volumes)
    /\ candle.close < fp.poc

\* the four conditions of the lower (LONG) branch
LowerConditions(candle, fp) ==
    /\ Cardinality(LowsAbove(candle.low)) >= minLevelsSwept
    /\ fp.delta * Len(absDeltaValues) < -(deltaMultiplier * SumSeq(absDeltaValues))
    /\ fp.totalVolume * Len(volumes) * volumeMultiplierDen
          > volumeMultiplierNum * SumSeq(volumes)
    /\ candle.close > fp.poc

\* C1: a checkCandle call made while a candidate is pending leaves the pending
\* record as it was.
C1_CheckCandleWhilePendingIsNoOp ==
    (event.op \in {"checkCandle", "resume"} /\ hasPending(event.before))
        => pending = event.before

C5_BreachCancels ==
    [][(/\ event'.op = "checkConfirmation"
        /\ \/ pending.state = SHORT /\ event'.candle[1].high > pending.sweepPrice[1]
           \/ pending.state = LONG /\ event'.candle[1].low < pending.sweepPrice[1])
          => /\ pending'.state = NONE
             /\ event'.ret = Null
             /\ UNCHANGED poolVars]_vars

C5_Witness ==
    /\ event.op = "checkConfirmation"
    /\ event.before.state = SHORT
    /\ event.candle[1].high > event.before.sweepPrice[1]
    /\ Len(swingHighPool) >= minLevelsSwept

\* C6: a checkConfirmation call made in a pending state resolves the candidate
\* on that call; a SHORT signal is returned iff bucket high <= sweep price, a
\* LONG signal iff bucket low >= sweep price.
C6_ResolvedOnFirstCall ==
    (event.op = "checkConfirmation" /\ hasPending(event.before)) =>
        LET b == event.before
            c == event.candle[1]
        IN  /\ pending.state = NONE
            /\ b.state = SHORT =>
                  /\ event.ret # Null <=> c.high <= b.sweepPrice[1]
                  /\ event.ret # Null => event.ret[1].type = "SHORT"
            /\ b.state = LONG =>
                  /\ event.ret # Null <=> c.low >= b.sweepPrice[1]
                  /\ event.ret # Null => event.ret[1].type = "LONG"

C6_Witness ==
    /\ event.op = "checkConfirmation"
    /\ event.before.state = SHORT
    /\ event.candle[1].high = event.before.sweepPrice[1]
    /\ event.ret # Null

\* C7: checkCandle in IDLE with a ready window and a snapshot moves to
\* SHORT_PENDING iff swept highs >= minLevelsSwept, delta > avgAbsDelta *
\* deltaMultiplier, totalVolume > avgVolume * volumeMultiplier and close < poc;
\* the candidate holds the bucket, the snapshot, the swept highs, sweepPrice =
\* bucket high and confirmCount = 0.
C7_ShortCandidate ==
    (/\ event.op = "checkCandle"
     /\ event.before.state = NONE
     /\ event.footprint # Null
     /\ Len(volumes) >= RollingWindow \div 2) =>
        LET candle == event.candle[1]
            fp     == event.footprint[1]
        IN  /\ pending.state = SHORT <=> UpperConditions(candle, fp)
            /\ pending.state = SHORT =>
                  /\ pending.candle = event.candle
                  /\ pending.footprint = event.footprint
                  /\ pending.sweptHighs # Null
                  /\ pending.sweptHighs[1].count = Cardinality(HighsBelow(candle.high))
                  /\ { pending.sweptHighs[1].swept[i] :
                          i \in 1..Len(pending.sweptHighs[1].swept) }
                        = { swingHighPool[i] : i \in HighsBelow(candle.high) }
                  /\ pending.sweepPrice = Some(candle.high)
                  /\ pending.confirmCount = 0

C7_Witness ==
    /\ event.op = "checkCandle"
    /\ event.before.state = NONE
    /\ pending.state = SHORT
    /\ pending.sweptHighs[1].count >= minLevelsSwept

\* C8: checkCandle in IDLE with a ready window and a snapshot moves to
\* LONG_PENDING iff the upper branch did not fire, swept lows >= minLevelsSwept,
\* delta < -(avgAbsDelta * deltaMultiplier), totalVolume > avgVolume *
\* volumeMultiplier and close > poc; sweepPrice = bucket low, confirmCount = 0.
C8_LongCandidate ==
    (/\ event.op = "checkCandle"
     /\ event.before.state = NONE
     /\ event.footprint # Null
     /\ Len(volumes) >= RollingWindow \div 2) =>
        LET candle == event.candle[1]
            fp     == event.footprint[1]
        IN  /\ pending.state = LONG <=>
                  (~UpperConditions(candle, fp) /\ LowerConditions(candle, fp))
            /\ pending.state = LONG =>
                  /\ pending.candle = event.candle
                  /\ pending.footprint = event.footprint
                  /\ pending.sweptLows # Null
                  /\ pending.sweptLows[1].count = Cardinality(LowsAbove(candle.low))
                  /\ { pending.sweptLows[1].swept[i] :
                          i \in 1..Len(pending.sweptLows[1].swept) }
                        = { swingLowPool[i] : i \in LowsAbove(candle.low) }
                  /\ pending.sweepPrice = Some(candle.low)
                  /\ pending.confirmCount = 0

C8_Witness ==
    /\ event.op = "checkCandle"
    /\ event.before.state = NONE
    /\ pending.state = LONG
    /\ pending.sweptLows[1].count >= minLevelsSwept

\* C9: isReady holds exactly when the window has >= floor(RollingWindow / 2)
\* samples, and while it has fewer a checkCandle call creates no candidate and
\* changes no state.
C9_NoCandidateBeforeReady ==
    /\ [](isReady(volumes) <=> Len(volumes) >= RollingWindow \div 2)
    /\ [][(event'.op = "checkCandle" /\ Len(volumes) < RollingWindow \div 2)
             => UNCHANGED << pending, statsVars, poolVars, engineVars >>]_vars

\* a call before the window is ready whose bucket and snapshot would pass the
\* upper branch against the mean of no samples
C9_Witness ==
    /\ event.op = "checkCandle"
    /\ Len(volumes) < RollingWindow \div 2
    /\ event.footprint # Null
    /\ event.footprint[1].delta > 0
    /\ Cardinality(HighsBelow(event.candle[1].high)) >= minLevelsSwept
    /\ event.candle[1].close < event.footprint[1].poc
    /\ pending.state = NONE

SampleInWindow(fp, vols, absDeltas) ==
    \E k \in 1..Len(vols) : vols[k] = fp.totalVolume /\ absDeltas[k] = Abs(fp.delta)

----------------------------------------------------------------------------
(* SwingDetector properties, checked under SpecSwing *)

\* the timestamps of a pool's pivots
Times(pool) == { pool[i].time : i \in 1..Len(pool) }

\* C12: each pool holds at most maxPoolSize pivots in every reachable state,
\* whatever sequence of update and clearSweptLevels calls led to it.
C12_PoolsBounded ==
    /\ Len(swingHighPool) <= maxPoolSize
    /\ Len(swingLowPool) <= maxPoolSize

\* update confirmed a new pivot while the high pool was full
C12_Witness ==
    /\ event.op = "update"
    /\ Len(event.before.high) = maxPoolSize
    /\ Times(swingHighPool) \ Times(event.before.high) # {}

\* the positions of the lookback buckets on each side of position idx
Neighbours(idx) == ((idx - lookback)..(idx + lookback)) \ {idx}

StrictlyHighest(h, idx) == \A j \in Neighbours(idx) : h[j].high < h[idx].high
StrictlyLowest(h, idx) == \A j \in Neighbours(idx) : h[j].low > h[idx].low

\* pool holds a pivot with this timestamp and price
HoldsPivot(pool, time, price) ==
    \E i \in 1..Len(pool) : pool[i].time = time /\ pool[i].price = price

\* a pivot with this timestamp, pushed into pool, is not the one evicted for overflow
Retained(pool, time) ==
    Len(pool) < maxPoolSize \/ \E i \in 1..Len(pool) : pool[i].time < time

C14_ShortHistoryIsNoOp ==
    (event.op = "update" /\ Len(event.arg) < 2 * lookback + 1)
    => /\ swingHighPool = event.before.high
       /\ swingLowPool = event.before.low

\* update returned from a history of 2 * lookback buckets that holds a bucket
\* above and below all the others
C14_Witness ==
    /\ event.op = "update"
    /\ Len(event.arg) = 2 * lookback
    /\ \E j \in 1..Len(event.arg) :
          \A k \in 1..Len(event.arg) :
             k # j => /\ event.arg[k].high < event.arg[j].high
                      /\ event.arg[k].low > event.arg[j].low

\* swept lists exactly the entries of pool at the positions idxs
ListsExactly(swept, pool, idxs) ==
    /\ Len(swept) = Cardinality(idxs)
    /\ \A i \in idxs : \E k \in 1..Len(swept) : swept[k] = pool[i]

\* level is null when idxs is empty, else the least price of pool at idxs
IsLeastPrice(level, pool, idxs) ==
    IF idxs = {} THEN level = Null
    ELSE /\ level # Null
         /\ \E i \in idxs : pool[i].price = level[1]
         /\ \A i \in idxs : pool[i].price >= level[1]

\* level is null when idxs is empty, else the greatest price of pool at idxs
IsGreatestPrice(level, pool, idxs) ==
    IF idxs = {} THEN level = Null
    ELSE /\ level # Null
         /\ \E i \in idxs : pool[i].price = level[1]
         /\ \A i \in idxs : pool[i].price <= level[1]

\* C15: getSweptHighs(x) returns exactly the high-pool pivots whose price is
\* strictly below x, their count and their least and greatest price (both null
\* when there is none); getSweptLows(x) returns the low-pool pivots whose price
\* is strictly above x, likewise.  A pivot priced exactly x is not swept, and
\* neither query changes a pool.
C15_SweptQueries ==
    /\ event.op = "getSweptHighs"
       => LET pool == event.before.high
              idxs == { i \in 1..Len(pool) : pool[i].price < event.arg }
          IN  /\ ListsExactly(event.ret.swept, pool, idxs)
              /\ event.ret.count = Cardinality(idxs)
              /\ IsLeastPrice(event.ret.lowestSweptLevel, pool, idxs)
              /\ IsGreatestPrice(event.ret.highestLevel, pool, idxs)
              /\ swingHighPool = event.before.high
              /\ swingLowPool = event.before.low
    /\ event.op = "getSweptLows"
       => LET pool == event.before.low
              idxs == { i \in 1..Len(pool) : pool[i].price > event.arg }
          IN  /\ ListsExactly(event.ret.swept, pool, idxs)
              /\ event.ret.count = Cardinality(idxs)
              /\ IsLeastPrice(event.ret.deepestLevel, pool, idxs)
              /\ IsGreatestPrice(event.ret.highestSweptLevel, pool, idxs)
              /\ swingHighPool = event.before.high
              /\ swingLowPool = event.before.low

\* getSweptHighs answered at the price of a pooled high, with cheaper highs pooled
C15_Witness ==
    /\ event.op = "getSweptHighs"
    /\ \E i \in 1..Len(swingHighPool) : swingHighPool[i].price = event.arg
    /\ event.ret.count > 0
    /\ event.ret.count < Len(swingHighPool)

\* the entries of a list
Entries(s) == { s[i] : i \in 1..Len(s) }

\* C16: getSweptHighs is monotonic in its level: for x <= y every pivot swept at
\* x is swept at y; getSweptLows is monotonic the other way round: for x <= y
\* every pivot swept at y is swept at x.
C16_SweptMonotonic ==
    /\ event.op = "getSweptHighs"
       => \A y \in HighLevels :
             LET other == Entries(getSweptHighs(swingHighPool, y).swept)
             IN  /\ event.arg <= y => Entries(event.ret.swept) \subseteq other
                 /\ y <= event.arg => other \subseteq Entries(event.ret.swept)
    /\ event.op = "getSweptLows"
       => \A y \in LowLevels :
             LET other == Entries(getSweptLows(swingLowPool, y).swept)
             IN  /\ event.arg <= y => other \subseteq Entries(event.ret.swept)
                 /\ y <= event.arg => Entries(event.ret.swept) \subseteq other

\* getSweptHighs answered with some pivots where a higher level sweeps more
C16_Witness ==
    /\ event.op = "getSweptHighs"
    /\ event.ret.count > 0
    /\ \E y \in HighLevels :
          /\ y > event.arg
          /\ getSweptHighs(swingHighPool, y).count > event.ret.count

\* after keeps the relative order its entries had in before
KeepsOrder(before, after) ==
    \A a, b \in 1..Len(after) :
        a < b => \E i, j \in 1..Len(before) :
                    i < j /\ before[i] = after[a] /\ before[j] = after[b]

\* C17: clearSweptLevels(side, pivots) removes from the pool of that side exactly
\* the pivots whose timestamp is the timestamp of one of the given pivots, keeps
\* the remaining pivots in their order, and leaves the other side's pool unchanged.
C17_ClearRemovesGivenTimes ==
    event.op = "clearSweptLevels"
    => LET given  == Times(event.arg.sweptLevels)
           isHigh == event.arg.type = "high"
           before == IF isHigh THEN event.before.high ELSE event.before.low
           after  == IF isHigh THEN swingHighPool ELSE swingLowPool
       IN  /\ Entries(after) = { e \in Entries(before) : e.time \notin given }
           /\ Len(after) = Cardinality(Entries(after))
           /\ KeepsOrder(before, after)
           /\ IF isHigh THEN swingLowPool = event.before.low
              ELSE swingHighPool = event.before.high

\* clearSweptLevels('high', lows) took out the highs that share a timestamp with
\* a given low, kept at least two highs, and was given a timestamp not pooled
C17_Witness ==
    /\ event.op = "clearSweptLevels"
    /\ event.arg.type = "high"
    /\ Entries(event.arg.sweptLevels) \cap Entries(event.before.high) = {}
    /\ Len(swingHighPool) < Len(event.before.high)
    /\ Len(swingHighPool) >= 2
    /\ Times(event.arg.sweptLevels) \ Times(event.before.high) # {}
    /\ event.before.low # << >>

\* C18: confirmation is deduplicated by timestamp: no pool ever holds two pivots
\* with the same timestamp, and a timestamp that was once confirmed as a pivot
\* of a side is never inserted into that side's pool again by a later update.
C18_TimestampConfirmedOnce ==
    /\ [](/\ Len(swingHighPool) = Cardinality(Times(swingHighPool))
          /\ Len(swingLowPool) = Cardinality(Times(swingLowPool)))
    /\ [][(PoolKeys(swingHighPool', swingLowPool') \ PoolKeys(swingHighPool, swingLowPool))
             \cap everPooled = {}]_vars

SortedByTime(pool) == \A i, j \in 1..Len(pool) : i < j => pool[i].time <= pool[j].time

\* the smallest of a non-empty set of timestamps
Oldest(times) == CHOOSE t \in times : \A u \in times : t <= u

\* pushing a pivot of this timestamp into the full pool before left after:
\* all the timestamps but the smallest
EvictedOldest(before, after, time) ==
    LET all == Times(before) \cup {time}
    IN  Times(after) = all \ {Oldest(all)}

\* C19: each pool is sorted by timestamp ascending in every reachable state, and
\* when a confirmed pivot overflows a pool the pivot evicted is the one with the
\* smallest timestamp.
C19_SortedAndOldestEvicted ==
    /\ SortedByTime(swingHighPool)
    /\ SortedByTime(swingLowPool)
    /\ (event.op = "update" /\ Len(event.arg) >= 2 * lookback + 1)
       => LET h   == event.arg
              idx == Len(h) - lookback
              c   == h[idx]
          IN  /\ (/\ Len(event.before.high) = maxPoolSize
                  /\ c.openTime \notin Times(event.before.high)
                  /\ StrictlyHighest(h, idx))
                 => EvictedOldest(event.before.high, swingHighPool, c.openTime)
              /\ (/\ Len(event.before.low) = maxPoolSize
                  /\ c.openTime \notin Times(event.before.low)
                  /\ StrictlyLowest(h, idx))
                 => EvictedOldest(event.before.low, swingLowPool, c.openTime)

\* update confirmed a pivot newer than all of a full low pool: the oldest left
C19_Witness ==
    /\ event.op = "update"
    /\ Len(event.before.low) = maxPoolSize
    /\ Oldest(Times(event.before.low)) \notin Times(swingLowPool)
    /\ \E t \in Times(swingLowPool) : \A u \in Times(event.before.low) : u < t
    /\ Len(swingLowPool) = maxPoolSize

----------------------------------------------------------------------------
(* FootprintEngine properties, checked under SpecEngine *)

\* the multiple of priceClusterSize nearest to price, the upper one of two
\* equally near
NearestLevel(price) ==
    CHOOSE l \in 0..(price + priceClusterSize) :
        /\ l % priceClusterSize = 0
        /\ 2 * (l - price) <= priceClusterSize
        /\ 2 * (price - l) < priceClusterSize

\* C20: handleTrade adds the trade's quantity to exactly one cluster, the one
\* keyed round(price / clusterSize) * clusterSize and created on first touch: to
\* its sell side iff the buyer is the maker (m = true), to its buy side
\* otherwise.  It adds the same quantity to the matching global total, increments
\* the trade count by one and leaves every other cluster unchanged.
C20_TradeGoesToOneCluster ==
    (event.op = "handleTrade" /\ event.arg.e = "aggTrade")
    => LET msg   == event.arg
           b     == event.before
           level == NearestLevel(msg.p)
           old   == IF level \in DOMAIN b.clusters THEN b.clusters[level]
                    ELSE [buyVolume |-> 0, sellVolume |-> 0, totalVolume |-> 0, delta |-> 0]
           sold  == IF msg.m THEN msg.q ELSE 0
           bought == IF msg.m THEN 0 ELSE msg.q
       IN  /\ DOMAIN clusters = DOMAIN b.clusters \cup {level}
           /\ \A l \in DOMAIN b.clusters : l # level => clusters[l] = b.clusters[l]
           /\ clusters[level].sellVolume = Plus(old.sellVolume, sold)
           /\ clusters[level].buyVolume = Plus(old.buyVolume, bought)
           /\ totalSellVolume = Plus(b.totalSellVolume, sold)
           /\ totalBuyVolume = Plus(b.totalBuyVolume, bought)
           /\ tradeCount = b.tradeCount + 1

\* a market sell whose price rounds down went into a cluster that existed, next
\* to another cluster
C20_Witness ==
    /\ event.op = "handleTrade"
    /\ event.arg.e = "aggTrade"
    /\ event.arg.m
    /\ NearestLevel(event.arg.p) < event.arg.p
    /\ NearestLevel(event.arg.p) \in DOMAIN event.before.clusters
    /\ \E l \in DOMAIN event.before.clusters : l # NearestLevel(event.arg.p)

\* the clusters' totalVolume added up, in the order of the array
RECURSIVE ClusterVolume(_)
ClusterVolume(array) ==
    IF array = << >> THEN 0
    ELSE Plus(ClusterVolume(SubSeq(array, 1, Len(array) - 1)), array[Len(array)].totalVolume)

\* C21: every snapshot calculate returns, after any sequence of handleTrade and
\* reset calls, has totalVolume = totalBuyVolume + totalSellVolume and
\* delta = totalBuyVolume - totalSellVolume; its clusters' totalVolume sum up to
\* its totalVolume and each cluster has totalVolume = buyVolume + sellVolume.
C21_SnapshotTotalsAgree ==
    (event.op = "calculate" /\ event.ret # Null)
    => LET fp    == event.ret[1]
           array == snapshot[1].returned
       IN  /\ fp.totalVolume = Plus(fp.totalBuyVolume, fp.totalSellVolume)
           /\ fp.delta = Minus(fp.totalBuyVolume, fp.totalSellVolume)
           /\ ClusterVolume(array) = fp.totalVolume
           /\ \A i \in 1..Len(array) :
                 array[i].totalVolume = Plus(array[i].buyVolume, array[i].sellVolume)

\* C22: the point of control of a snapshot is the cluster with the maximum
\* totalVolume, the one with the lowest price when several clusters share that
\* maximum, and pocVolume is that maximum.
C22_PocIsLowestMaximum ==
    (event.op = "calculate" /\ event.ret # Null)
    => LET fp    == event.ret[1]
           array == snapshot[1].returned
       IN  /\ \E i \in 1..Len(array) :
                 array[i].price = fp.poc /\ array[i].totalVolume = fp.pocVolume
           /\ \A j \in 1..Len(array) :
                 /\ array[j].totalVolume <= fp.pocVolume
                 /\ array[j].totalVolume = fp.pocVolume => array[j].price >= fp.poc

\* calculate chose the lower of two clusters sharing the maximum, above a
\* cluster of less volume
C22_Witness ==
    /\ event.op = "calculate"
    /\ event.ret # Null
    /\ LET fp    == event.ret[1]
           array == snapshot[1].returned
       IN  /\ \E j \in 1..Len(array) :
                 array[j].price > fp.poc /\ array[j].totalVolume = fp.pocVolume
           /\ \E k \in 1..Len(array) :
                 array[k].price < fp.poc /\ array[k].totalVolume < fp.pocVolume

\* C23: a snapshot calculate returned is immutable: no later handleTrade or reset
\* changes its cluster list or the buy, sell and total volume or the delta of a
\* cluster in it.
C23_SnapshotImmutable ==
    snapshot # Null => snapshot[1].clusters = snapshot[1].returned

\* the engine's fields as after construction
EngineIsEmpty(e) ==
    /\ DOMAIN e.clusters = {}
    /\ e.totalBuyVolume = 0
    /\ e.totalSellVolume = 0
    /\ e.tradeCount = 0

\* C24: calculate returns null iff no trade was ingested since construction or
\* the last reset.  reset clears all clusters, both volume totals and the trade
\* count, so a calculate right after it returns null, and a second reset changes
\* nothing.
C24_NullIffNoTrades ==
    /\ event.op = "calculate" => (event.ret = Null <=> event.before.tradeCount = 0)
    /\ event.op = "reset"
       => /\ EngineIsEmpty([clusters        |-> clusters,
                            totalBuyVolume  |-> totalBuyVolume,
                            totalSellVolume |-> totalSellVolume,
                            tradeCount      |-> tradeCount])
          /\ calculate(clusters, totalBuyVolume, totalSellVolume, tradeCount) = Null
    /\ (event.op \in {"calculate", "reset"} /\ EngineIsEmpty(event.before))
       => /\ clusters = event.before.clusters
          /\ totalBuyVolume = event.before.totalBuyVolume
          /\ totalSellVolume = event.before.totalSellVolume
          /\ tradeCount = event.before.tradeCount

\* calculate returned null after a reset that followed a returned snapshot
C24_Witness ==
    /\ event.op = "calculate"
    /\ event.ret = Null
    /\ snapshot # Null
    /\ ~snapshot[1].shared

----------------------------------------------------------------------------
(* CandleBuilder properties, checked under SpecCandles *)

\* the first position of the maximal run of candles with one window id that
\* ends at position last of log
RunStart(log, last) ==
    CHOOSE i \in 1..last :
        /\ \A j \in i..last : windowIdOf(log[j]) = windowIdOf(log[last])
        /\ i = 1 \/ windowIdOf(log[i - 1]) # windowIdOf(log[last])

\* the volumes of log[first..last] added up in order
RECURSIVE VolumeOf(_, _, _)
VolumeOf(log, first, last) ==
    IF first = last THEN log[first].volume
    ELSE Plus(VolumeOf(log, first, last - 1), log[last].volume)

\* the 15m candle that aggregates log[first..last]
AggregateOf(log, first, last) ==
    [windowId |-> windowIdOf(log[first]),
     openTime |-> log[first].openTime,
     open     |-> log[first].open,
     high     |-> CHOOSE h \in { log[j].high : j \in first..last } :
                     \A j \in first..last : log[j].high <= h,
     low      |-> CHOOSE l \in { log[j].low : j \in first..last } :
                     \A j \in first..last : log[j].low >= l,
     close    |-> log[last].close,
     volume   |-> VolumeOf(log, first, last),
     count    |-> last - first + 1]

\* the 15m candles the last call finalized
Finalized == SelectSeq(event.emitted, LAMBDA ev : ev.name = "15mClose")

\* C25: every finalized 15m candle is the aggregate of a maximal run of
\* consecutive closed 1m candles with the same window id
\* floor(openTime / coarseWindowLength): open of the first member, maximum of the
\* highs, minimum of the lows, close of the last member, sum of the volumes,
\* number of members.  Each closed 1m candle is a member of exactly one 15m
\* candle: the open 15m candle is the aggregate of the run that is not over.
C25_CoarseIsAggregateOfRun ==
    event.op = "handleKlineMessage"
    => LET n == Len(closedLog)
       IN  /\ current15m = Null <=> n = 0
           /\ n > 0 => current15m[1] = AggregateOf(closedLog, RunStart(closedLog, n), n)
           /\ \A k \in 1..Len(Finalized) :
                 /\ n > 1
                 /\ RunStart(closedLog, n) = n
                 /\ Finalized[k].candle
                       = AggregateOf(closedLog, RunStart(closedLog, n - 1), n - 1)
                 /\ closed15m[Len(closed15m)] = Finalized[k].candle

\* a 15m candle of two 1m candles was finalized, its high and close from the second
C25_Witness ==
    /\ event.op = "handleKlineMessage"
    /\ Len(Finalized) = 1
    /\ Finalized[1].candle.count = 2
    /\ Finalized[1].candle.high > closedLog[RunStart(closedLog, Len(closedLog) - 1)].high
    /\ Finalized[1].candle.close # closedLog[RunStart(closedLog, Len(closedLog) - 1)].close

\* the window id floor(openTime / coarseWindowLength) of two candles is the same
SameWindow(a, b) ==
    a.openTime \div coarseWindowLength = b.openTime \div coarseWindowLength

\* C26: every closed 1m update produces exactly one '1mClose' event, emitted
\* before any '15mClose' event of the same update.  A '15mClose' event is emitted
\* only when a closed 1m candle with another window id arrives, once per
\* finalized 15m candle, and the emitted 15m candle does not include the incoming
\* 1m candle.  An update that is not closed emits no event.
C26_EventsPerUpdate ==
    event.op = "handleKlineMessage"
    => LET msg    == event.arg
           closed == msg.e = "kline" /\ msg.k.x
           open15 == event.before.current15m
           rolls  == closed /\ open15 # Null /\ ~SameWindow(open15[1], KlineCandle(msg))
       IN  /\ ~closed => event.emitted = << >>
           /\ closed => /\ event.emitted # << >>
                        /\ event.emitted[1] = Emit("1mClose", KlineCandle(msg))
                        /\ \A k \in 2..Len(event.emitted) : event.emitted[k].name = "15mClose"
           /\ Len(Finalized) = IF rolls THEN 1 ELSE 0
           /\ rolls => /\ Finalized[1].candle = open15[1]
                       /\ Len(closed15m) > 0
                       /\ closed15m[Len(closed15m)] = open15[1]
           /\ ~rolls => closed15m = event.before.closed15m

\* a closed 1m candle of a new window arrived: '1mClose' for it, then '15mClose'
\* for the 15m candle of the window before
C26_Witness ==
    /\ event.op = "handleKlineMessage"
    /\ Len(event.emitted) = 2
    /\ event.emitted[1].name = "1mClose"
    /\ event.emitted[1].candle.openTime = event.arg.k.t
    /\ event.emitted[2].name = "15mClose"
    /\ event.emitted[2].candle.openTime # event.arg.k.t

\* every 15m candle finalized so far, in finalization order: the aggregates of
\* the runs of closedLog that are over
AllFinalized ==
    LET n    == Len(closedLog)
        ends == SetToAscSeq({ j \in 1..(n - 1) :
                                 windowIdOf(closedLog[j]) # windowIdOf(closedLog[j + 1]) })
    IN  [k \in 1..Len(ends) |-> AggregateOf(closedLog, RunStart(closedLog, ends[k]), ends[k])]

----------------------------------------------------------------------------
(* RollingStats properties, checked under SpecStats *)

\* the last min(Len(log), RollingWindow) samples of log
RecentSamples(log) ==
    LET kept == IF Len(log) > RollingWindow THEN RollingWindow ELSE Len(log)
    IN  SubSeq(log, Len(log) - kept + 1, Len(log))

\* C28: after any sequence of push and reset calls the three series have the
\* same length, never more than windowSize, and hold the most recent
\* min(k, windowSize) of the k samples pushed since the last reset, in arrival
\* order: the oldest sample is evicted first.
C28_WindowHoldsRecentSamples ==
    LET recent == RecentSamples(pushLog)
    IN  /\ Len(volumes) = Len(absDeltaValues)
        /\ Len(volumes) = Len(deltaValues)
        /\ Len(volumes) <= RollingWindow
        /\ volumes = [i \in 1..Len(recent) |-> recent[i].totalVolume]
        /\ deltaValues = [i \in 1..Len(recent) |-> recent[i].delta]
        /\ absDeltaValues = [i \in 1..Len(recent) |->
                               IF recent[i].delta < 0 THEN -recent[i].delta
                               ELSE recent[i].delta]

\* a push beyond windowSize evicted the oldest sample, which differed from the next
C28_Witness ==
    /\ event.op = "push"
    /\ Len(pushLog) > RollingWindow
    /\ Len(event.before.volumes) = RollingWindow
    /\ event.before.volumes[1] # event.before.volumes[2]
    /\ \E i \in 1..Len(deltaValues) : deltaValues[i] < 0

\* the fraction mean equals total / count
IsQuotient(mean, total, count) ==
    /\ mean.den > 0
    /\ mean.num * count = total * mean.den

\* C29: avgVolume and avgAbsDelta return 0 when the window is empty; otherwise
\* the sum of the current samples (the volumes, respectively the absolute values
\* of the pushed deltas) divided by the current number of samples, not by
\* windowSize.
C29_MeansOverCurrentSamples ==
    event.op = "means"
    => LET recent   == RecentSamples(pushLog)
           count    == Len(recent)
           volume   == SumSeq([i \in 1..count |-> recent[i].totalVolume])
           absDelta == SumSeq([i \in 1..count |-> Abs(recent[i].delta)])
       IN  IF count = 0
           THEN /\ event.ret.avgVolume.num = 0
                /\ event.ret.avgAbsDelta.num = 0
           ELSE /\ IsQuotient(event.ret.avgVolume, volume, count)
                /\ IsQuotient(event.ret.avgAbsDelta, absDelta, count)

\* the means were read from a window that holds samples of both signs but is
\* not full
C29_Witness ==
    /\ event.op = "means"
    /\ Len(volumes) > 1
    /\ Len(volumes) < RollingWindow
    /\ \E i, j \in 1..Len(deltaValues) : deltaValues[i] < 0 /\ deltaValues[j] > 0

TradeHandled == tradeCount' = tradeCount + 1

\* a step in which an _on1mClose invocation started
CloseStarted == event'.op \in {"1mClose", "await"}

checkCandle_lowerFirst(p, vols, absDeltas, candle, footprint, sweptLows, sweptHighs) ==
    IF footprint = Null \/ ~isReady(vols) THEN p
    ELSE LET fp == footprint[1]
         IN  IF /\ sweptLows.count >= minLevelsSwept
                /\ deltaSpikeDown(fp, absDeltas)
                /\ volSpike(fp, vols)
                /\ closeAbovePOC(candle, fp)
             THEN [state        |-> LONG,
                   candle       |-> Some(candle),
                   footprint    |-> footprint,
                   sweptLows    |-> Some(sweptLows),
                   sweptHighs   |-> Null,
                   sweepPrice   |-> Some(candle.low),
                   confirmCount |-> 0]
             ELSE IF /\ sweptHighs.count >= minLevelsSwept
                     /\ deltaSpikeUp(fp, absDeltas)
                     /\ volSpike(fp, vols)
                     /\ closeBelowPOC(candle, fp)
             THEN [state        |-> SHORT,
                   candle       |-> Some(candle),
                   footprint    |-> footprint,
                   sweptLows    |-> Null,
                   sweptHighs   |-> Some(sweptHighs),
                   sweepPrice   |-> Some(candle.high),
                   confirmCount |-> 0]
             ELSE p

\* C35: the delta conditions of the SHORT and the LONG branch of checkCandle
\* never hold together, and checking the branches in the other order gives the
\* same pending record.
C35_BranchesExclusive ==
    event.op = "checkCandle" /\ event.footprint # Null
    => LET candle == event.candle[1]
           fp     == event.footprint[1]
       IN  /\ ~(deltaSpikeUp(fp, absDeltaValues) /\ deltaSpikeDown(fp, absDeltaValues))
           /\ pending = checkCandle_lowerFirst(event.before, volumes, absDeltaValues,
                                               candle, event.footprint,
                                               getSweptLows(swingLowPool, candle.low),
                                               getSweptHighs(swingHighPool, candle.high))

\* checkCandle made a candidate from a bucket that swept enough levels on both
\* sides
C35_Witness ==
    /\ event.op = "checkCandle"
    /\ event.before.state = NONE
    /\ hasPending(pending)
    /\ Cardinality(HighsBelow(event.candle[1].high)) >= minLevelsSwept
    /\ Cardinality(LowsAbove(event.candle[1].low)) >= minLevelsSwept

IsSortedAscending(s) == \A i, j \in 1..Len(s) : i < j => s[i] <= s[j]

\* C36: every signal checkConfirmation returns is well-formed: sweptLevels is
\* sorted ascending, sweptCount is its length and at least minLevelsSwept; a
\* SHORT has sweepPrice above every swept level, delta > 0 and candleClose < poc;
\* a LONG has sweepPrice below every swept level, delta < 0 and candleClose > poc.
C36_SignalWellFormed ==
    event.op = "checkConfirmation" /\ event.ret # Null
    => LET d == event.ret[1].data
       IN  /\ IsSortedAscending(d.sweptLevels)
           /\ d.sweptCount = Len(d.sweptLevels)
           /\ d.sweptCount >= minLevelsSwept
           /\ event.ret[1].type = "SHORT"
              => /\ \A i \in 1..Len(d.sweptLevels) : d.sweepPrice[1] > d.sweptLevels[i]
                 /\ d.delta > 0
                 /\ d.candleClose < d.poc
           /\ event.ret[1].type = "LONG"
              => /\ \A i \in 1..Len(d.sweptLevels) : d.sweepPrice[1] < d.sweptLevels[i]
                 /\ d.delta < 0
                 /\ d.candleClose > d.poc
           /\ event.ret[1].type \in {"SHORT", "LONG"}

\* a LONG signal over two different swept lows came back from checkConfirmation
C36_Witness ==
    /\ event.op = "checkConfirmation"
    /\ event.ret # Null
    /\ event.ret[1].type = "LONG"
    /\ Len(event.ret[1].data.sweptLevels) = 2
    /\ event.ret[1].data.sweptLevels[1] < event.ret[1].data.sweptLevels[2]

\* C37: two different pivots of the same side, confirmed from the stream of
\* closed 15m candles, are more than lookback positions apart.
C37_PivotsApart ==
    \A a, b \in everPooled :
        a[1] = b[1] /\ a[2] # b[2] => Abs(a[2] - b[2]) > lookback

\* two high pivots were confirmed exactly lookback + 1 positions apart
C37_Witness ==
    \E a, b \in everPooled :
        a[1] = "high" /\ b[1] = "high" /\ b[2] - a[2] = lookback + 1

\* C38: of any two alerts that were sent, the later one's send decision (its
\* `now`) was taken at least cooldownMs after the earlier one's, whatever the
\* interleaving of the _sendAlert calls.
C38_CooldownBetweenAlerts ==
    \A i, j \in 1..Len(sentLog) :
        i # j => Abs(sentLog[i] - sentLog[j]) >= cooldownMs

\* C39: reconnectAttempts never exceeds maxReconnectAttempts, a successful open
\* resets it to 0, and once 'maxReconnectReached' was emitted connect() is not
\* executed again.
C39_ReconnectsBounded ==
    /\ reconnectAttempts <= maxReconnectAttempts
    /\ socketHistory.op = "open" => reconnectAttempts = 0
    /\ socketHistory.atLimit # Null => socketHistory.connects = socketHistory.atLimit[1]

\* 'maxReconnectReached' was emitted after maxReconnectAttempts reconnects in a
\* row without an open, an earlier connection having opened and been lost
C39_Witness ==
    /\ socketHistory.atLimit # Null
    /\ reconnectAttempts = maxReconnectAttempts
    /\ \E i \in 1..Len(sockets) : i + maxReconnectAttempts <= socketHistory.connects
    /\ timers = 0

\* C40: after disconnect() connect() is not executed again and no reconnect is
\* scheduled, whether a pending reconnect timer fires or the terminated socket
\* emits 'close'; the ping timer stays cleared and isConnected stays false.
C40_DisconnectIsFinal ==
    [][/\ ~shouldReconnect
          => /\ ~shouldReconnect'
             /\ socketHistory'.connects = socketHistory.connects
             /\ timers' <= timers
       /\ ~shouldReconnect' => pingInterval' = Null /\ ~isConnected']_vars

\* after disconnect() a pending reconnect timer fired and the terminated socket
\* emitted 'close'
C40_Witness ==
    /\ socketHistory.atDisconnect # Null
    /\ socketHistory.op \in {"timer", "close"}
    /\ timers = 0
    /\ \A i \in 1..Len(sockets) : sockets[i] = "CLOSED"
    /\ Len(sockets) > 1

====
